---- MODULE Spec2Model ----
(***************************************************************************)
(* Flowchart generator: the graph editor of src/app/page.tsx (nodes,       *)
(* edges, the condition dialog and the state nodes of compound             *)
(* conditions) and the backward reachability analysis of                   *)
(* docs/compound-condition-path-analysis.md.                               *)
(*                                                                         *)
(* Text (ids, labels) is a sequence of one-character strings, so that      *)
(* joining, prefix tests and the id grammar are computed as the code       *)
(* computes them.  Enumerations (shape, style, category, operator) are     *)
(* TLA+ strings.  An absent optional field is the empty value of its type: *)
(* questionCategory "" (the code tests it for truthiness), choices <<>>,   *)
(* compoundCondition <<>> (the list of its conditions; the operator is     *)
(* always 'AND').                                                          *)
(*                                                                         *)
(* page.tsx mounts the condition dialog under the name AddConditionDialog  *)
(* and hands it conditionNodes; the dialog code with the compound panel is *)
(* components/NodeEditDialog.tsx, so the form is modelled from the single  *)
(* condition fields of AddConditionDialog.tsx and the compound panel,      *)
(* validation and handleAddConnection of NodeEditDialog.tsx.               *)
(*                                                                         *)
(* The specifications: Spec, the editor, in sessions of at most MaxSteps   *)
(* edits; SpecIdEdit, the editor with the id input of the side panel;      *)
(* SpecIdentity, generateStateNodeId on two condition lists the dialog can *)
(* hand over; SpecReach, one reachability query on a graph of a bounded    *)
(* family; SpecCoverage, SpecGenerate and SpecValidate, one call of        *)
(* checkChoiceCoverage, FlowchartGenerator.generate and validateNodeId on  *)
(* an argument of a bounded family; SpecCollision, generateStateNodeId on  *)
(* a graph one of whose node ids has the form of a condition token;        *)
(* SpecRender, the render effect of components/FlowchartRenderer.tsx under *)
(* a bounded number of changes of its mermaidCode prop.                    *)
(***************************************************************************)
EXTENDS Integers, Sequences, FiniteSets, TLC

VARIABLES
    steps,               \* the number of edits the session has made
    customNodes,         \* page.tsx useState<CustomNode[]>
    customEdges,         \* page.tsx useState<Array<{from,to,label,style}>>
    isDialogOpen,        \* page.tsx useState(false)
    selectedSourceNode,  \* page.tsx useState<FlowchartNode | null>: <<>> is null, <<n>> a node
    phase,               \* which machine runs: "editor", "identity", "reach", "render", a call
    condsA,              \* identity: the first compound condition list
    condsB,              \* identity: the second compound condition list
    idA,                 \* identity: generateStateNodeId(condsA), <<>> before it ran
    idB,                 \* identity: generateStateNodeId(condsB), <<>> before it ran
    rNodes,              \* reachability query: the nodes argument
    rEdges,              \* reachability query: the edges argument
    targetNodeId,        \* reachability query: the target id
    visited,             \* reachability query: the visited set of the traversal
    questionNodeIds,     \* reachability query: the collected ids
    dfsStack,            \* reachability query: pending dfs calls, the next one first
    expandCount,         \* reachability query: how often each id was expanded
    pc,                  \* reachability query: "run" or "done"
    args,                \* library call: the arguments of the call, <<>> when none is made
    out,                 \* library call: the returned value, <<>> before the return
    mermaidCode,         \* renderer: the mermaidCode prop of FlowchartRenderer
    rendering,           \* renderer: the calls of mermaid.render that have not settled yet
    innerHTML            \* renderer: containerRef.current.innerHTML, <<>> when empty

vars == <<steps, customNodes, customEdges, isDialogOpen, selectedSourceNode, phase,
          condsA, condsB, idA, idB,
          rNodes, rEdges, targetNodeId, visited, questionNodeIds, dfsStack,
          expandCount, pc, args, out, mermaidCode, rendering, innerHTML>>

editorVars == <<customNodes, customEdges, isDialogOpen, selectedSourceNode>>
identityVars == <<condsA, condsB, idA, idB>>
reachVars == <<rNodes, rEdges, targetNodeId, visited, questionNodeIds, dfsStack,
               expandCount, pc>>
callVars == <<args, out>>
renderVars == <<mermaidCode, rendering, innerHTML>>

----------------------------------------------------------------------------
(* Bounds of the model.                                                    *)

MaxNodes == 5
MaxEdges == 6
MaxChoices == 1
MaxReachEdges == 3

----------------------------------------------------------------------------
(* Text helpers.                                                           *)

STATE_NODE_PREFIX == <<"_", "s", "t", "a", "t", "e", "_">>

Letters == {"a","b","c","d","e","f","g","h","i","j","k","l","m","n","o","p","q",
            "r","s","t","u","v","w","x","y","z",
            "A","B","C","D","E","F","G","H","I","J","K","L","M","N","O","P","Q",
            "R","S","T","U","V","W","X","Y","Z"}

Digits == {"0","1","2","3","4","5","6","7","8","9"}

DigitChar(d) == <<"0","1","2","3","4","5","6","7","8","9">>[d + 1]

RECURSIVE NatToString(_)
NatToString(n) ==
    IF n < 10 THEN <<DigitChar(n)>>
    ELSE NatToString(n \div 10) \o <<DigitChar(n % 10)>>

\* `${value}` of an integral JS number
NumberToString(v) == IF v < 0 THEN <<"-">> \o NatToString(0 - v) ELSE NatToString(v)

\* Array.prototype.join
RECURSIVE join(_, _)
join(parts, sep) ==
    IF parts = <<>> THEN <<>>
    ELSE IF Len(parts) = 1 THEN parts[1]
    ELSE parts[1] \o sep \o join(Tail(parts), sep)

startsWith(s, p) == Len(s) >= Len(p) /\ SubSeq(s, 1, Len(p)) = p

\* String.fromCharCode(65 + n) for the codes of A..Z
fromCharCode65(n) ==
    <<"A","B","C","D","E","F","G","H","I","J","K","L","M","N","O","P","Q",
      "R","S","T","U","V","W","X","Y","Z">>[n + 1]

\* the numeric operator as it is interpolated into an id: its own name
OperatorName(op) ==
    CASE op = "eq" -> <<"e","q">>
      [] op = "gt" -> <<"g","t">>
      [] op = "lt" -> <<"l","t">>
      [] op = "gte" -> <<"g","t","e">>
      [] op = "lte" -> <<"l","t","e">>

opSymbol(op) ==
    CASE op = "eq" -> <<"=">>
      [] op = "gt" -> <<">">>
      [] op = "lt" -> <<"<">>
      [] op = "gte" -> <<">","=">>
      [] op = "lte" -> <<"<","=">>

\* indices of a sequence that satisfy nothing in particular: its domain
Indices(s) == 1..Len(s)

\* Array.prototype.find / findIndex on ids: the first index whose node has this id, 0 if none
findIndex(nodes, id) ==
    IF \E i \in Indices(nodes) : nodes[i].id = id
    THEN CHOOSE i \in Indices(nodes) :
            nodes[i].id = id /\ \A j \in 1..(i - 1) : nodes[j].id # id
    ELSE 0

\* Array.prototype.filter on indices
RemoveAt(s, i) == [j \in 1..(Len(s) - 1) |-> IF j < i THEN s[j] ELSE s[j + 1]]

----------------------------------------------------------------------------
(* lib/validation.ts                                                       *)

\* variant: the first character may be any character of the id alphabet
validateNodeId_anyFirst(id) ==
    IF id = <<>> THEN [valid |-> FALSE, message |-> "required"]
    ELSE IF ~(\A i \in Indices(id) : id[i] \in Letters \cup Digits \cup {"_"})
         THEN [valid |-> FALSE, message |-> "grammar"]
         ELSE [valid |-> TRUE, message |-> ""]

validateNodeId(id) ==
    IF id = <<>> THEN [valid |-> FALSE, message |-> "required"]
    ELSE IF ~(id[1] \in Letters /\ \A i \in Indices(id) : id[i] \in Letters \cup Digits \cup {"_"})
         THEN [valid |-> FALSE, message |-> "grammar"]
         ELSE [valid |-> TRUE, message |-> ""]

----------------------------------------------------------------------------
(* page.tsx: state nodes.                                                  *)

isStateNode(nodeId) == startsWith(nodeId, STATE_NODE_PREFIX)

ChoiceCond(nodeId, choiceIds) ==
    [nodeId |-> nodeId, conditionType |-> "choice", choiceIds |-> choiceIds,
     operator |-> "eq", value |-> 0]

NumericCond(nodeId, op, v) ==
    [nodeId |-> nodeId, conditionType |-> "numeric", choiceIds |-> <<>>,
     operator |-> op, value |-> v]

\* one element of parts in generateStateNodeId
StateIdPart(c) ==
    IF c.conditionType = "choice"
    THEN c.nodeId \o <<"_">> \o join(c.choiceIds, <<"_">>)
    ELSE c.nodeId \o <<"_">> \o OperatorName(c.operator) \o NumberToString(c.value)

generateStateNodeId(conditions) ==
    STATE_NODE_PREFIX \o
        join([i \in Indices(conditions) |-> StateIdPart(conditions[i])], <<"_">>)

\* node?.label || c.nodeId, choice?.label || choiceId
LabelOrId(nodes, id) ==
    LET i == findIndex(nodes, id)
    IN IF i # 0 /\ nodes[i].label # <<>> THEN nodes[i].label ELSE id

ChoiceLabelOrId(nodes, nodeId, choiceId) ==
    LET i == findIndex(nodes, nodeId)
    IN IF i = 0 THEN choiceId
       ELSE LET chs == nodes[i].choices
            IN IF \E k \in Indices(chs) : chs[k].id = choiceId
               THEN LET k == CHOOSE k \in Indices(chs) :
                                chs[k].id = choiceId /\ \A m \in 1..(k - 1) : chs[m].id # choiceId
                    IN IF chs[k].label # <<>> THEN chs[k].label ELSE choiceId
               ELSE choiceId

ChoiceLabels(nodes, c) ==
    join([k \in Indices(c.choiceIds) |-> ChoiceLabelOrId(nodes, c.nodeId, c.choiceIds[k])],
         <<",", " ">>)

StateLabelPart(nodes, c) ==
    IF c.conditionType = "choice"
    THEN LabelOrId(nodes, c.nodeId) \o <<":", " ">> \o ChoiceLabels(nodes, c)
    ELSE LabelOrId(nodes, c.nodeId) \o <<" ">> \o opSymbol(c.operator) \o <<" ">>
            \o NumberToString(c.value)

generateStateNodeLabel(conditions, nodes) ==
    join([i \in Indices(conditions) |-> StateLabelPart(nodes, conditions[i])],
         <<" ", "A", "N", "D", " ">>)

----------------------------------------------------------------------------
(* page.tsx: the editor state and what the side panel and the dialog see.  *)

Node(id, label, shape) ==
    [id |-> id, label |-> label, shape |-> shape, questionCategory |-> "",
     choices |-> <<>>, compoundCondition |-> <<>>]

Edge(from, to, label, style) == [from |-> from, to |-> to, label |-> label, style |-> style]

questionCategories == {"", "SA", "MA", "FA", "NA"}

numericOperators == {"eq", "gt", "lt", "gte", "lte"}

edgeStyleOptions == {"solid", "dotted", "thick", "biDirectional"}

\* variant: the side panel lists every node
displayNodes_unfiltered == customNodes

displayNodes == SelectSeq(customNodes, LAMBDA n : ~isStateNode(n.id))

displayEdges == SelectSeq(customEdges, LAMBDA e : ~isStateNode(e.from) /\ ~isStateNode(e.to))

conditionNodes ==
    SelectSeq(customNodes,
              LAMBDA n : n.questionCategory # "" /\ n.questionCategory # "FA"
                         /\ ~isStateNode(n.id))

\* variant: the dialog is handed every node
availableNodes_unfiltered == customNodes

\* availableNodes={currentDefinition.nodes.filter(n => !isStateNode(n.id))}
availableNodes == SelectSeq(customNodes, LAMBDA n : ~isStateNode(n.id))

InitNodes ==
    << Node(<<"A">>, <<"S","t","a","r","t">>, "stadium"),
       Node(<<"B">>, <<"P","r","o","c","e","s","s">>, "rectangle"),
       Node(<<"C">>, <<"E","n","d">>, "stadium") >>

InitEdges ==
    << Edge(<<"A">>, <<"B">>, <<>>, "solid"),
       Edge(<<"B">>, <<"C">>, <<>>, "solid") >>

----------------------------------------------------------------------------
(* The dialog's compound-condition map (a JS Map keyed by node id, kept in *)
(* insertion order; every value's nodeId is its key).                      *)

MapHas(m, k) == \E i \in Indices(m) : m[i].nodeId = k

MapGet(m, k) == m[CHOOSE i \in Indices(m) : m[i].nodeId = k]

\* variant: the conditions are kept in an array and pushed
MapSet_push(m, k, v) == Append(m, v)

\* Map.prototype.set: an existing key keeps its place
MapSet(m, k, v) ==
    IF MapHas(m, k)
    THEN [i \in Indices(m) |-> IF m[i].nodeId = k THEN v ELSE m[i]]
    ELSE Append(m, v)

MapDelete(m, k) == SelectSeq(m, LAMBDA c : c.nodeId # k)

\* updateCompoundCondition(nodeId, condition); condition <<>> is null, <<c>> a condition
updateCompoundCondition(m, nodeId, condition) ==
    IF condition # <<>> THEN MapSet(m, nodeId, condition[1]) ELSE MapDelete(m, nodeId)

\* the choice button of a condition node in the compound panel
ClickChoice(m, node, choiceId) ==
    IF node.questionCategory = "SA"
    THEN updateCompoundCondition(m, node.id, <<ChoiceCond(node.id, <<choiceId>>)>>)
    ELSE LET currentChoices ==
                 IF MapHas(m, node.id) /\ MapGet(m, node.id).conditionType = "choice"
                 THEN MapGet(m, node.id).choiceIds ELSE <<>>
             isChoiceSelected == \E k \in Indices(currentChoices) : currentChoices[k] = choiceId
             newChoices ==
                 IF isChoiceSelected
                 THEN SelectSeq(currentChoices, LAMBDA id : id # choiceId)
                 ELSE Append(currentChoices, choiceId)
         IN IF newChoices # <<>>
            THEN updateCompoundCondition(m, node.id, <<ChoiceCond(node.id, newChoices)>>)
            ELSE updateCompoundCondition(m, node.id, <<>>)

\* the number input of an NA condition node
TypeNumber(m, node, v) ==
    LET op == IF MapHas(m, node.id) /\ MapGet(m, node.id).conditionType = "numeric"
              THEN MapGet(m, node.id).operator ELSE "eq"
    IN updateCompoundCondition(m, node.id, <<NumericCond(node.id, op, v)>>)

\* the operator select of an NA condition node: acts only when a value is set
SelectOperator(m, node, op) ==
    IF MapHas(m, node.id) /\ MapGet(m, node.id).conditionType = "numeric"
    THEN updateCompoundCondition(m, node.id,
                                 <<NumericCond(node.id, op, MapGet(m, node.id).value)>>)
    ELSE m

----------------------------------------------------------------------------
(* The values a user types or picks in the dialog and the side panel.      *)

NumericValueInputs == {5}

NumericOperatorInputs == {"gt"}

ConditionLabelInputs == {<<"o","k">>}

EdgeStyleInputs == {"solid"}

NewNodeIdInputs == {<<"N">>, <<"n","-","1">>}

NewNodeLabelInputs == {<<"N","e","w">>}

\* bound on the number of clicks and keystrokes in the compound panel of one dialog
MaxDialogEvents == 2

\* every map one more event leads to: choice buttons of the SA/MA nodes with choices,
\* the number input, the operator select and the clear button of the NA nodes
DialogEvents(m) ==
    LET cn == conditionNodes
    IN UNION { { ClickChoice(m, cn[i], cn[i].choices[k].id) : k \in Indices(cn[i].choices) } :
                 i \in {j \in Indices(cn) : cn[j].questionCategory \in {"SA", "MA"}} }
       \cup UNION { { TypeNumber(m, cn[i], v) : v \in NumericValueInputs }
                    \cup { SelectOperator(m, cn[i], op) : op \in NumericOperatorInputs }
                    \cup { updateCompoundCondition(m, cn[i].id, <<>>) } :
                 i \in {j \in Indices(cn) : cn[j].questionCategory = "NA"} }
       \cup { updateCompoundCondition(m, cn[i].id, <<>>) : i \in Indices(cn) }

RECURSIVE MapsAfter(_, _)
MapsAfter(S, k) ==
    IF k = 0 THEN S
    ELSE MapsAfter(S \cup UNION { DialogEvents(m) : m \in S }, k - 1)

\* the compoundConditions maps the open dialog can hold (it opens with an empty map)
compoundConditionsMaps == MapsAfter({<<>>}, MaxDialogEvents)

\* Array.from(compoundConditions.values())
MapValues(m) == m

----------------------------------------------------------------------------
(* The dialog: validation and handleAddConnection (NodeEditDialog.tsx).    *)

sourceNode == selectedSourceNode[1]

selectableNodes == SelectSeq(availableNodes, LAMBDA n : n.id # sourceNode.id)

\* selectedTargetId: availableNodes[0].id when the dialog opens, then any radio button
SelectedTargetIds ==
    (IF availableNodes # <<>> THEN {availableNodes[1].id} ELSE {<<>>})
    \cup { selectableNodes[i].id : i \in Indices(selectableNodes) }

hasChoices == sourceNode.questionCategory \in {"SA", "MA"} /\ sourceNode.choices # <<>>

isNumeric == sourceNode.questionCategory = "NA"

isFreeAnswer == sourceNode.questionCategory = "FA"

\* selectedChoiceIds: one id for SA, any list the checkboxes give for MA (here in choice order)
SelectedChoiceIdLists ==
    IF ~hasChoices THEN {<<>>}
    ELSE {<<>>} \cup { <<sourceNode.choices[k].id>> : k \in Indices(sourceNode.choices) }
         \cup (IF sourceNode.questionCategory = "MA" /\ Len(sourceNode.choices) >= 2
               THEN { [k \in Indices(sourceNode.choices) |-> sourceNode.choices[k].id] }
               ELSE {})

\* the form of the dialog: every field the user controls
FormInputs ==
    [ targetType : {"existing", "new"},
      selectedTargetId : SelectedTargetIds,
      newNodeId : NewNodeIdInputs,
      newNodeLabel : NewNodeLabelInputs,
      conditionLabel : ConditionLabelInputs,
      edgeStyle : EdgeStyleInputs,
      selectedChoiceIds : SelectedChoiceIdLists,
      numericOperator : {"eq"} \cup NumericOperatorInputs,
      numericValue : {<<>>} \cup { <<v>> : v \in NumericValueInputs },
      useCompoundCondition : BOOLEAN,
      compoundConditions : IF Len(conditionNodes) >= 2 THEN compoundConditionsMaps ELSE {<<>>} ]

\* the form fields that occur together: the compound checkbox is rendered only with two or
\* more condition nodes, and unchecking it empties the map; a field the chosen target type
\* never reads is kept at one value
FormReachable(f) ==
    /\ f.useCompoundCondition => Len(conditionNodes) >= 2
    /\ ~f.useCompoundCondition => f.compoundConditions = <<>>
    /\ f.targetType = "existing" => f.newNodeId = <<"N">>
    /\ f.targetType = "new" => f.selectedTargetId \in
            (IF availableNodes # <<>> THEN {availableNodes[1].id} ELSE {<<>>})

isTargetValid(f) ==
    IF f.targetType = "existing"
    THEN f.selectedTargetId # <<>>
    ELSE f.newNodeId # <<>> /\ f.newNodeLabel # <<>> /\ validateNodeId(f.newNodeId).valid

isConditionValid(f) ==
    IF f.useCompoundCondition THEN Len(f.compoundConditions) >= 2
    ELSE IF sourceNode.questionCategory = "" THEN TRUE
    ELSE IF isFreeAnswer THEN FALSE
    ELSE IF hasChoices THEN f.selectedChoiceIds # <<>>
    ELSE IF isNumeric THEN f.numericValue # <<>>
    ELSE TRUE

isConnectionValid(f) == isTargetValid(f) /\ isConditionValid(f)

generateConditionLabel(f) ==
    IF hasChoices /\ f.selectedChoiceIds # <<>>
    THEN LET picked == SelectSeq(sourceNode.choices,
                                 LAMBDA c : \E k \in Indices(f.selectedChoiceIds) :
                                                f.selectedChoiceIds[k] = c.id)
         IN join([k \in Indices(picked) |-> picked[k].label], <<",", " ">>)
    ELSE IF isNumeric /\ f.numericValue # <<>>
    THEN opSymbol(f.numericOperator) \o <<" ">> \o NumberToString(f.numericValue[1])
    ELSE f.conditionLabel

\* whether handleAddConnection takes the compound branch
takesCompoundBranch(f) == f.useCompoundCondition /\ Len(f.compoundConditions) >= 2

\* the AddConditionResult handleAddConnection passes to onAddCondition;
\* <<>> when it calls nothing
handleAddConnection(f) ==
    IF takesCompoundBranch(f)
    THEN << [ targetNodeId |-> IF f.targetType = "existing" THEN f.selectedTargetId
                                                            ELSE f.newNodeId,
              label |-> f.conditionLabel,
              style |-> f.edgeStyle,
              createNewNode |-> IF f.targetType = "new" /\ f.newNodeId # <<>>
                                   /\ f.newNodeLabel # <<>>
                                THEN <<[id |-> f.newNodeId, label |-> f.newNodeLabel]>>
                                ELSE <<>>,
              compoundCondition |-> MapValues(f.compoundConditions) ] >>
    ELSE IF f.targetType = "existing" /\ f.selectedTargetId # <<>>
    THEN << [ targetNodeId |-> f.selectedTargetId,
              label |-> generateConditionLabel(f),
              style |-> f.edgeStyle,
              createNewNode |-> <<>>,
              compoundCondition |-> <<>> ] >>
    ELSE IF f.targetType = "new" /\ f.newNodeId # <<>> /\ f.newNodeLabel # <<>>
    THEN << [ targetNodeId |-> f.newNodeId,
              label |-> generateConditionLabel(f),
              style |-> f.edgeStyle,
              createNewNode |-> <<[id |-> f.newNodeId, label |-> f.newNodeLabel]>>,
              compoundCondition |-> <<>> ] >>
    ELSE <<>>

----------------------------------------------------------------------------
(* page.tsx: handleAddCondition.                                           *)

\* variant: the lookup of the state node is left out
existingStateNode_never(nodes, stateNodeId) == FALSE

\* customNodes.find(n => n.id === stateNodeId) is defined
existingStateNode(nodes, stateNodeId) == findIndex(nodes, stateNodeId) # 0

\* customEdges.some(e => e.from === cond.nodeId && e.to === stateNodeId)
edgeExists(edges, from, to) == \E i \in Indices(edges) : edges[i].from = from /\ edges[i].to = to

\* edgeLabel of the edge from a condition node to the state node
ConditionEdgeLabel(nodes, cond) ==
    IF cond.conditionType = "choice"
    THEN ChoiceLabels(nodes, cond)
    ELSE opSymbol(cond.operator) \o <<" ">> \o NumberToString(cond.value)

\* the for loop over result.compoundCondition.conditions: one dotted edge from each
\* condition's node to the state node, unless customEdges already holds one
RECURSIVE ConditionEdges(_, _, _, _)
ConditionEdges(conditions, stateNodeId, nodes, edges) ==
    IF conditions = <<>> THEN <<>>
    ELSE LET cond == Head(conditions)
             rest == ConditionEdges(Tail(conditions), stateNodeId, nodes, edges)
         IN IF edgeExists(edges, cond.nodeId, stateNodeId) THEN rest
            ELSE <<Edge(cond.nodeId, stateNodeId, ConditionEdgeLabel(nodes, cond), "dotted")>>
                 \o rest

\* variant: the edge from the state node to the target is left out
NewEdges_withoutTargetEdge(result, source, nodes, edges) ==
    IF result.compoundCondition # <<>>
    THEN LET stateNodeId == generateStateNodeId(result.compoundCondition)
         IN ConditionEdges(result.compoundCondition, stateNodeId, nodes, edges)
    ELSE <<Edge(source.id, result.targetNodeId, result.label, result.style)>>

\* the edges handleAddCondition appends (newEdges, or the single edge)
NewEdges(result, source, nodes, edges) ==
    IF result.compoundCondition # <<>>
    THEN LET stateNodeId == generateStateNodeId(result.compoundCondition)
         IN ConditionEdges(result.compoundCondition, stateNodeId, nodes, edges)
            \o <<Edge(stateNodeId, result.targetNodeId, result.label, result.style)>>
    ELSE <<Edge(source.id, result.targetNodeId, result.label, result.style)>>

\* the nodes handleAddCondition appends: the new target node, then the state node
NewNodes(result, nodes) ==
    (IF result.createNewNode # <<>>
     THEN <<Node(result.createNewNode[1].id, result.createNewNode[1].label, "rectangle")>>
     ELSE <<>>)
    \o
    (IF result.compoundCondition # <<>>
        /\ ~existingStateNode(nodes, generateStateNodeId(result.compoundCondition))
     THEN <<[ id |-> generateStateNodeId(result.compoundCondition),
              label |-> generateStateNodeLabel(result.compoundCondition, nodes),
              shape |-> "hexagon",
              questionCategory |-> "",
              choices |-> <<>>,
              compoundCondition |-> result.compoundCondition ]>>
     ELSE <<>>)

----------------------------------------------------------------------------
(* The editor's actions.  The dialog is a modal overlay over the page, so  *)
(* the side panel acts only while it is closed.                            *)

\* handleNodeClick: a click on a rendered node; the id first, then the label
handleNodeClick(nodeId) ==
    /\ phase = "editor"
    /\ ~isDialogOpen
    /\ LET byId == findIndex(customNodes, nodeId)
           byLabel == IF \E i \in Indices(customNodes) : customNodes[i].label = nodeId
                      THEN CHOOSE i \in Indices(customNodes) :
                              /\ customNodes[i].label = nodeId
                              /\ \A j \in 1..(i - 1) : customNodes[j].label # nodeId
                      ELSE 0
       IN /\ byId # 0 \/ byLabel # 0
          /\ selectedSourceNode' = <<customNodes[IF byId # 0 THEN byId ELSE byLabel]>>
    /\ isDialogOpen' = TRUE
    /\ UNCHANGED <<customNodes, customEdges>>

\* the dialog's onClose without a submit
CloseDialog ==
    /\ phase = "editor"
    /\ isDialogOpen
    /\ isDialogOpen' = FALSE
    /\ selectedSourceNode' = <<>>
    /\ UNCHANGED <<customNodes, customEdges>>

\* the submit button of the dialog: handleAddConnection, then handleAddCondition
SubmitConnection(f) ==
    /\ phase = "editor"
    /\ isDialogOpen
    /\ selectedSourceNode # <<>>
    /\ FormReachable(f)
    /\ isConnectionValid(f)
    /\ handleAddConnection(f) # <<>>
    /\ LET result == handleAddConnection(f)[1]
           newNodes == NewNodes(result, customNodes)
           newEdges == NewEdges(result, sourceNode, customNodes, customEdges)
       IN /\ Len(customNodes) + Len(newNodes) <= MaxNodes
          /\ Len(customEdges) + Len(newEdges) <= MaxEdges
          /\ customNodes' = customNodes \o newNodes
          /\ customEdges' = customEdges \o newEdges
    /\ isDialogOpen' = FALSE
    /\ selectedSourceNode' = <<>>

addNode ==
    /\ phase = "editor"
    /\ ~isDialogOpen
    /\ Len(customNodes) < MaxNodes
    /\ LET newId == <<fromCharCode65(Len(customNodes))>>
       IN customNodes' = Append(customNodes,
                                Node(newId, <<"N","o","d","e"," ">> \o newId, "rectangle"))
    /\ UNCHANGED <<customEdges, isDialogOpen, selectedSourceNode>>

\* variant: the delete also drops the edges that leave the neighbours of the node
removeNode_withNeighbourEdges(index) ==
    /\ phase = "editor"
    /\ ~isDialogOpen
    /\ LET nodeId == customNodes[index].id
           neighbours == { customEdges[k].to : k \in { j \in Indices(customEdges) :
                                                        customEdges[j].from = nodeId } }
       IN /\ customNodes' = RemoveAt(customNodes, index)
          /\ customEdges' = SelectSeq(customEdges,
                                      LAMBDA e : /\ e.from # nodeId /\ e.to # nodeId
                                                 /\ e.from \notin neighbours)
    /\ UNCHANGED <<isDialogOpen, selectedSourceNode>>

\* removeNode(index): the delete button of a row of the side panel
removeNode(index) ==
    /\ phase = "editor"
    /\ ~isDialogOpen
    /\ LET nodeId == customNodes[index].id
       IN /\ customNodes' = RemoveAt(customNodes, index)
          /\ customEdges' = SelectSeq(customEdges, LAMBDA e : e.from # nodeId /\ e.to # nodeId)
    /\ UNCHANGED <<isDialogOpen, selectedSourceNode>>

\* the question-category select of a row of the side panel
setQuestionCategory(index, category) ==
    /\ phase = "editor"
    /\ ~isDialogOpen
    /\ customNodes[index].questionCategory # category
    /\ customNodes' =
          [customNodes EXCEPT ![index] =
              IF category # ""
              THEN [@ EXCEPT !.questionCategory = category]
              ELSE [@ EXCEPT !.questionCategory = "", !.choices = <<>>]]
    /\ UNCHANGED <<customEdges, isDialogOpen, selectedSourceNode>>

\* romanised stand-in for the label prefix of a new choice
ChoiceLabelWord == <<"S","e","n","t","a","k","u","s","h","i">>

\* addChoice(nodeIndex): offered in the choice area of an SA/MA row
addChoice(nodeIndex) ==
    /\ phase = "editor"
    /\ ~isDialogOpen
    /\ customNodes[nodeIndex].questionCategory \in {"SA", "MA"}
    /\ Len(customNodes[nodeIndex].choices) < MaxChoices
    /\ LET node == customNodes[nodeIndex]
           n == Len(node.choices) + 1
           newChoiceId == node.id \o <<"_","o","p","t">> \o NumberToString(n)
       IN customNodes' =
             [customNodes EXCEPT ![nodeIndex].choices =
                 Append(@, [id |-> newChoiceId, label |-> ChoiceLabelWord \o NumberToString(n)])]
    /\ UNCHANGED <<customEdges, isDialogOpen, selectedSourceNode>>

\* removeEdge(index): the delete button of a row of the edge list
removeEdge(index) ==
    /\ phase = "editor"
    /\ ~isDialogOpen
    /\ customEdges' = RemoveAt(customEdges, index)
    /\ UNCHANGED <<customNodes, isDialogOpen, selectedSourceNode>>

\* the index the side panel computes for a displayed node
DisplayNodeIndices == { findIndex(customNodes, displayNodes[i].id) : i \in Indices(displayNodes) }

\* the index the side panel computes for a displayed edge
DisplayEdgeIndices ==
    { CHOOSE i \in Indices(customEdges) :
          /\ customEdges[i].from = displayEdges[k].from
          /\ customEdges[i].to = displayEdges[k].to
          /\ customEdges[i].label = displayEdges[k].label
          /\ \A j \in 1..(i - 1) :
                ~(customEdges[j].from = displayEdges[k].from
                  /\ customEdges[j].to = displayEdges[k].to
                  /\ customEdges[j].label = displayEdges[k].label)
      : k \in Indices(displayEdges) }

\* bound on the number of edits of one session
MaxSteps == 6

EditorInit ==
    /\ phase = "editor"
    /\ customNodes = InitNodes
    /\ customEdges = InitEdges
    /\ isDialogOpen = FALSE
    /\ selectedSourceNode = <<>>

IdleIdentity == condsA = <<>> /\ condsB = <<>> /\ idA = <<>> /\ idB = <<>>

IdleReach ==
    /\ rNodes = <<>> /\ rEdges = <<>> /\ targetNodeId = <<>> /\ visited = {}
    /\ questionNodeIds = {} /\ dfsStack = <<>> /\ expandCount = <<>> /\ pc = "idle"

IdleCall == args = <<>> /\ out = <<>>

IdleRender == mermaidCode = <<>> /\ rendering = <<>> /\ innerHTML = <<>>

Init == EditorInit /\ IdleIdentity /\ IdleReach /\ IdleCall /\ IdleRender /\ steps = 0

\* one more edit of a session of at most MaxSteps edits
Tick == steps < MaxSteps /\ steps' = steps + 1 /\ UNCHANGED <<phase, identityVars, reachVars, callVars, renderVars>>

Next ==
    \/ Tick /\ \E i \in Indices(customNodes) : handleNodeClick(customNodes[i].id)
    \/ Tick /\ CloseDialog
    \/ Tick /\ isDialogOpen /\ selectedSourceNode # <<>>
            /\ \E f \in FormInputs : SubmitConnection(f)
    \/ Tick /\ addNode
    \/ Tick /\ \E index \in DisplayNodeIndices : removeNode(index)
    \/ Tick /\ \E index \in DisplayNodeIndices : \E category \in questionCategories :
                  setQuestionCategory(index, category)
    \/ Tick /\ \E index \in DisplayNodeIndices : addChoice(index)
    \/ Tick /\ \E index \in DisplayEdgeIndices : removeEdge(index)

Spec == Init /\ [][Next]_vars

----------------------------------------------------------------------------
(* The reachability analyzer (graphUtils.ts, getReachableQuestionNodes),    *)
(* run one dfs call at a time on a graph drawn from a bounded family.       *)

\* saturation of the expansion counter: 0, 1, "more"
MaxExpandCount == 2

ReachQ1Id == <<"Q","1">>
ReachQ2Id == <<"Q","2">>
ReachEndId == <<"E">>

\* the compound condition of the state node of the family
ReachConditions ==
    << ChoiceCond(ReachQ1Id, <<ReachQ1Id \o <<"_","o","p","t","1">> >>),
       ChoiceCond(ReachQ2Id, <<ReachQ2Id \o <<"_","o","p","t","1">> >>) >>

ReachStateId == generateStateNodeId(ReachConditions)

ReachIds == <<ReachQ1Id, ReachQ2Id, ReachStateId, ReachEndId>>

ReachQuestion(id, category) ==
    [ Node(id, id, "rectangle") EXCEPT
        !.questionCategory = category,
        !.choices = << [id |-> id \o <<"_","o","p","t","1">>, label |-> <<"a">>] >> ]

ReachStateNode ==
    [ Node(ReachStateId, <<"s">>, "hexagon") EXCEPT !.compoundCondition = ReachConditions ]

ReachEndNode == Node(ReachEndId, <<"E","n","d">>, "stadium")

\* the categories the second question node takes
ReachCategoryInputs == {"MA", "NA", "FA", ""}

\* the node lists: the four nodes, the list without the second question node (edges and
\* conditions then refer to a missing node), and the list without the state node
ReachNodeLists ==
    { <<ReachQuestion(ReachQ1Id, "SA"), ReachQuestion(ReachQ2Id, c), ReachStateNode,
        ReachEndNode>> : c \in ReachCategoryInputs }
    \cup { <<ReachQuestion(ReachQ1Id, "SA"), ReachStateNode, ReachEndNode>> }
    \cup { <<ReachQuestion(ReachQ1Id, "SA"), ReachQuestion(ReachQ2Id, "MA"), ReachEndNode>> }

\* every edge between two ids of the family, self-loops included
ReachEdgePairs ==
    [ k \in 1..(Len(ReachIds) * Len(ReachIds)) |->
        Edge(ReachIds[((k - 1) \div Len(ReachIds)) + 1],
             ReachIds[((k - 1) % Len(ReachIds)) + 1], <<>>, "solid") ]

\* the strictly increasing index lists of length at most k
RECURSIVE IncreasingLists(_)
IncreasingLists(k) ==
    IF k = 0 THEN {<<>>}
    ELSE LET P == IncreasingLists(k - 1)
         IN P \cup UNION { { Append(l, i) :
                                 i \in { j \in Indices(ReachEdgePairs) :
                                           l = <<>> \/ j > l[Len(l)] } } :
                             l \in { x \in P : Len(x) = k - 1 } }

ReachEdgeLists ==
    { [ k \in Indices(l) |-> ReachEdgePairs[l[k]] ] : l \in IncreasingLists(MaxReachEdges) }

\* reverseEdges.get(nodeId) || []: the sources of the edges into nodeId, in edge order
reverseEdges(edges, nodeId) ==
    LET into == SelectSeq(edges, LAMBDA e : e.to = nodeId)
    IN [ k \in Indices(into) |-> into[k].from ]

\* an ordinary question node whose answers a condition can test
isQuestionNode(node) ==
    node.questionCategory \notin {"", "FA"} /\ ~isStateNode(node.id)

\* variant: what one visited node adds when a state node is passed over without a look at its
\* compound condition
collect_withoutTunnel(node, nodes) ==
    IF isQuestionNode(node) THEN {node.id} ELSE {}

\* what one visited node adds to questionNodeIds
collect(node, nodes) ==
    IF isStateNode(node.id) /\ node.compoundCondition # <<>>
    THEN { node.compoundCondition[k].nodeId : k \in
             { j \in Indices(node.compoundCondition) :
                 LET o == findIndex(nodes, node.compoundCondition[j].nodeId)
                 IN o # 0 /\ isQuestionNode(nodes[o]) } }
    ELSE IF isQuestionNode(node) THEN {node.id}
    ELSE {}

\* variant: the query starts with a dfs call on the target itself
initialCalls_fromTarget(edges, target) == <<target>>

\* the dfs calls the query starts with: the predecessors of the target
initialCalls(edges, target) == reverseEdges(edges, target)

\* variant: the id is not recorded
markVisited_never(v, nodeId) == v

\* visited.add(nodeId)
markVisited(v, nodeId) == v \cup {nodeId}

\* variant: the traversal stops at a question node
predecessorCalls_stopAtQuestion(node, edges) ==
    IF isQuestionNode(node) THEN <<>> ELSE reverseEdges(edges, node.id)

\* predecessors.forEach(predId => dfs(predId)), whatever the kind of the node
predecessorCalls(node, edges) == reverseEdges(edges, node.id)

ReachInit ==
    /\ phase = "reach"
    /\ steps = 0
    /\ customNodes = InitNodes /\ customEdges = InitEdges
    /\ isDialogOpen = FALSE /\ selectedSourceNode = <<>>
    /\ IdleIdentity
    /\ IdleCall
    /\ IdleRender
    /\ rNodes \in ReachNodeLists
    /\ rEdges \in ReachEdgeLists
    /\ targetNodeId \in { ReachIds[i] : i \in Indices(ReachIds) }
    /\ visited = {}
    /\ questionNodeIds = {}
    /\ dfsStack = <<>>
    /\ expandCount = [ i \in Indices(ReachIds) |-> 0 ]
    /\ pc = "start"

\* getReachableQuestionNodes is called: the reverse map is built, the traversal starts
getReachableQuestionNodes ==
    /\ pc = "start"
    /\ dfsStack' = initialCalls(rEdges, targetNodeId)
    /\ pc' = "run"
    /\ UNCHANGED <<visited, questionNodeIds, expandCount>>

\* dfs(nodeId) on a visited id: returns at once
dfsVisited ==
    /\ pc = "run" /\ dfsStack # <<>>
    /\ Head(dfsStack) \in visited
    /\ dfsStack' = Tail(dfsStack)
    /\ UNCHANGED <<visited, questionNodeIds, expandCount, pc>>

\* dfs(nodeId) on a new id: mark, look up, collect, and call dfs on the predecessors
dfs ==
    /\ pc = "run" /\ dfsStack # <<>>
    /\ Head(dfsStack) \notin visited
    /\ LET nodeId == Head(dfsStack)
           i == findIndex(rNodes, nodeId)
           k == CHOOSE j \in Indices(ReachIds) : ReachIds[j] = nodeId
       IN /\ visited' = markVisited(visited, nodeId)
          /\ expandCount' = [expandCount EXCEPT ![k] = IF @ < MaxExpandCount THEN @ + 1 ELSE @]
          /\ IF i = 0
             THEN /\ dfsStack' = Tail(dfsStack)
                  /\ UNCHANGED questionNodeIds
             ELSE /\ questionNodeIds' = questionNodeIds \cup collect(rNodes[i], rNodes)
                  /\ dfsStack' = predecessorCalls(rNodes[i], rEdges) \o Tail(dfsStack)
    /\ UNCHANGED pc

\* the outermost call returns: the query is answered
dfsReturn ==
    /\ pc = "run" /\ dfsStack = <<>>
    /\ pc' = "done"
    /\ UNCHANGED <<visited, questionNodeIds, dfsStack, expandCount>>

ReachFrame ==
    UNCHANGED <<steps, phase, editorVars, identityVars, rNodes, rEdges, targetNodeId, callVars,
                renderVars>>

ReachNext ==
    \/ getReachableQuestionNodes /\ ReachFrame
    \/ dfsVisited /\ ReachFrame
    \/ dfs /\ ReachFrame
    \/ dfsReturn /\ ReachFrame

\* the query runs to its end: a call that can take a step takes it
SpecReach == ReachInit /\ [][ReachNext]_vars /\ WF_vars(ReachNext)

----------------------------------------------------------------------------
(* The identity of a compound condition: generateStateNodeId applied to    *)
(* two condition lists the dialog can hand over.                           *)

\* bound on the number of clicks and keystrokes that build one of the two lists
MaxIdentityEvents == 3

\* three question nodes as the side panel makes them: SA and MA with a choice, NA
IdentityNodes ==
    << [ Node(<<"A">>, <<"S","t","a","r","t">>, "stadium") EXCEPT
           !.questionCategory = "SA",
           !.choices = << [id |-> <<"A","_","o","p","t","1">>,
                           label |-> ChoiceLabelWord \o <<"1">>] >> ],
       [ Node(<<"B">>, <<"P","r","o","c","e","s","s">>, "rectangle") EXCEPT
           !.questionCategory = "NA" ],
       [ Node(<<"C">>, <<"E","n","d">>, "stadium") EXCEPT
           !.questionCategory = "MA",
           !.choices = << [id |-> <<"C","_","o","p","t","1">>,
                           label |-> ChoiceLabelWord \o <<"1">>] >> ] >>

\* Array.from(compoundConditions.values()) of every map that passes the size check
IdentityConditionLists ==
    { MapValues(m) : m \in { x \in MapsAfter({<<>>}, MaxIdentityEvents) : Len(x) >= 2 } }

IdentityInit ==
    /\ phase = "identity"
    /\ steps = 0
    /\ customNodes = IdentityNodes /\ customEdges = <<>>
    /\ isDialogOpen = TRUE /\ selectedSourceNode = <<IdentityNodes[1]>>
    /\ condsA \in IdentityConditionLists
    /\ condsB \in IdentityConditionLists
    /\ idA = <<>> /\ idB = <<>>
    /\ IdleReach
    /\ IdleRender
    /\ IdleCall

\* handleAddCondition derives the id of each of the two lists
deriveStateNodeIds ==
    /\ phase = "identity"
    /\ idA = <<>> /\ idB = <<>>
    /\ idA' = generateStateNodeId(condsA)
    /\ idB' = generateStateNodeId(condsB)
    /\ UNCHANGED <<steps, phase, editorVars, condsA, condsB, reachVars, callVars,
                   renderVars>>

IdentityNext == deriveStateNodeIds

SpecIdentity == IdentityInit /\ [][IdentityNext]_vars

\* the two lists hold the same nodeId -> condition pairs, in any order
SamePairs(a, b) ==
    /\ Len(a) = Len(b)
    /\ { a[i] : i \in Indices(a) } = { b[i] : i \in Indices(b) }

\* C1: two compound conditions whose condition lists are permutations of each other
\* derive the same state-node id.
C1_DedupIdentity ==
    (phase = "identity" /\ idA # <<>> /\ SamePairs(condsA, condsB)) => idA = idB

----------------------------------------------------------------------------
(* Properties of the reachability analyzer.                                *)

ReachIdSet == { ReachIds[i] : i \in Indices(ReachIds) }

NodeExists(nodes, id) == findIndex(nodes, id) # 0

\* the ids with a path of one or more edges to target; with viaExisting the nodes
\* between the two ends of the path must be in the node list
RECURSIVE Ancestors(_, _, _, _, _)
Ancestors(edges, nodes, target, viaExisting, found) ==
    LET more == { edges[k].from : k \in
                    { j \in Indices(edges) :
                        \/ edges[j].to = target
                        \/ /\ edges[j].to \in found
                           /\ (viaExisting => NodeExists(nodes, edges[j].to)) } }
    IN IF more \subseteq found THEN found
       ELSE Ancestors(edges, nodes, target, viaExisting, found \cup more)

HasPath(from, to) == from \in Ancestors(rEdges, rNodes, to, FALSE, {})

HasPathViaExisting(from, to) == from \in Ancestors(rEdges, rNodes, to, TRUE, {})

Acyclic == \A id \in ReachIdSet : ~HasPath(id, id)

\* the ids of the ordinary SA/MA/NA nodes of the list
QuestionIds == { rNodes[i].id : i \in { j \in Indices(rNodes) : isQuestionNode(rNodes[j]) } }

\* the result never holds a state node, an FA node or an uncategorised node
ResultIsQuestionNodes == questionNodeIds \subseteq QuestionIds

\* C5 as stated: when the query is answered, the result holds every ordinary SA/MA/NA node
\* with a path of one or more edges to the target, and nothing but ordinary SA/MA/NA nodes.
C5_ResultSet ==
    pc = "done" =>
        /\ \A id \in QuestionIds : HasPath(id, targetNodeId) => id \in questionNodeIds
        /\ ResultIsQuestionNodes

\* C5 amended: when the query is answered, the result holds every ordinary SA/MA/NA node
\* with a path of one or more edges to the target along which every node between the two
\* ends is in the node list, and nothing but ordinary SA/MA/NA nodes.
C5_ResultSetViaExisting ==
    pc = "done" =>
        /\ \A id \in QuestionIds :
              HasPathViaExisting(id, targetNodeId) => id \in questionNodeIds
        /\ ResultIsQuestionNodes

\* C5 witness: two converging paths to the end node, one of them past a second question
\* node, and both question nodes collected.
C5_Witness ==
    /\ pc = "done"
    /\ targetNodeId = ReachEndId
    /\ \E i, j, k \in Indices(rEdges) :
          /\ rEdges[i].from = ReachQ1Id /\ rEdges[i].to = ReachQ2Id
          /\ rEdges[j].from = ReachQ2Id /\ rEdges[j].to = ReachEndId
          /\ rEdges[k].from = ReachQ1Id /\ rEdges[k].to = ReachEndId
    /\ questionNodeIds = {ReachQ1Id, ReachQ2Id}

\* the graph Q1(SA) -> Q2(MA) -> End
LinearFlow ==
    /\ rNodes = <<ReachQuestion(ReachQ1Id, "SA"), ReachQuestion(ReachQ2Id, "MA"), ReachEndNode>>
    /\ rEdges = << Edge(ReachQ1Id, ReachQ2Id, <<>>, "solid"),
                   Edge(ReachQ2Id, ReachEndId, <<>>, "solid") >>

LinearFlowResults ==
    LinearFlow =>
        /\ targetNodeId = ReachQ2Id => questionNodeIds = {ReachQ1Id}
        /\ targetNodeId = ReachQ1Id => questionNodeIds = {}
        /\ targetNodeId = ReachEndId => questionNodeIds = {ReachQ1Id, ReachQ2Id}

\* a state node with a path to the target lists the target in its compound condition
TargetTunnelled ==
    \E i \in Indices(rNodes) :
        /\ isStateNode(rNodes[i].id)
        /\ HasPathViaExisting(rNodes[i].id, targetNodeId)
        /\ \E k \in Indices(rNodes[i].compoundCondition) :
              rNodes[i].compoundCondition[k].nodeId = targetNodeId

C7_Tunneling ==
    \A i \in Indices(rNodes) :
        (/\ rNodes[i].id \in visited
         /\ isStateNode(rNodes[i].id)
         /\ rNodes[i].compoundCondition # <<>>)
        => /\ rNodes[i].id \notin questionNodeIds
           /\ \A k \in Indices(rNodes[i].compoundCondition) :
                 LET id == rNodes[i].compoundCondition[k].nodeId
                 IN id \in QuestionIds => id \in questionNodeIds

\* C7 witness: the state node was visited and a node it names is in the result although
\* that node has no path to the target.
C7_Witness ==
    /\ pc = "done"
    /\ ReachStateId \in visited
    /\ ReachQ1Id \in questionNodeIds
    /\ ~HasPath(ReachQ1Id, targetNodeId)

\* C8: every query is answered, and no id is expanded more than once on the way.
C8_CycleSafety ==
    /\ <>(pc = "done")
    /\ [](\A i \in Indices(ReachIds) : expandCount[i] <= 1)

\* C8 witness: a query on a graph with a cycle through the target is answered (the
\* traversal came back to the target), and so is one for a target without predecessors.
C8_Witness ==
    /\ pc = "done"
    /\ targetNodeId \in visited
    /\ HasPath(targetNodeId, targetNodeId)

----------------------------------------------------------------------------
(* Properties of the editor.                                               *)

\* the state nodes of a node list, in list order
StateNodes(nodes) == SelectSeq(nodes, LAMBDA n : isStateNode(n.id))

\* the ids a compound condition names
ConditionNodeIds(conditions) == { conditions[k].nodeId : k \in Indices(conditions) }

\* C2: a compound commit while N is the selected source adds exactly one edge into the
\* state node, and that edge leaves N.
C2_SingleEdgeWiring ==
    [][ (phase = "editor" /\ isDialogOpen /\ selectedSourceNode # <<>>) =>
          \A f \in FormInputs :
             (takesCompoundBranch(f) /\ SubmitConnection(f)) =>
                LET stateNodeId == generateStateNodeId(MapValues(f.compoundConditions))
                    added == SubSeq(customEdges', Len(customEdges) + 1, Len(customEdges'))
                    into == SelectSeq(added, LAMBDA e : e.to = stateNodeId)
                IN Len(into) = 1 /\ into[1].from = sourceNode.id ]_vars

\* C3: after a question node X is deleted, no state node names X in its compound
\* condition, and no edge touches X or a state node that named X.
C3_CascadeDelete ==
    [][ (phase = "editor" /\ ~isDialogOpen) =>
          \A index \in DisplayNodeIndices :
             removeNode(index) =>
                LET X == customNodes[index].id
                    referencing == { customNodes[i].id : i \in
                                       { j \in Indices(customNodes) :
                                           /\ isStateNode(customNodes[j].id)
                                           /\ X \in ConditionNodeIds(
                                                       customNodes[j].compoundCondition) } }
                IN /\ \A i \in Indices(customNodes') :
                         isStateNode(customNodes'[i].id) =>
                            X \notin ConditionNodeIds(customNodes'[i].compoundCondition)
                   /\ \A k \in Indices(customEdges') :
                         /\ customEdges'[k].from \notin ({X} \cup referencing)
                         /\ customEdges'[k].to \notin ({X} \cup referencing) ]_vars

\* C4: at most one node exists per state-node id, whatever was committed.
C4_StateNodeReuse ==
    \A i, j \in Indices(customNodes) :
        (isStateNode(customNodes[i].id) /\ customNodes[i].id = customNodes[j].id) => i = j

\* C4 witness: a second commit of the same compound condition found the state node and
\* reused it: one state node, two edges leaving it.
C4_Witness ==
    /\ phase = "editor"
    /\ Len(StateNodes(customNodes)) = 1
    /\ Len(SelectSeq(customEdges, LAMBDA e : e.from = StateNodes(customNodes)[1].id)) = 2

\* C9: no step of the editor removes a node with the state prefix: every state node of
\* the graph is in the graph after the step, unchanged.
C9_StateNodesNotDeleted ==
    [][ \A i \in Indices(customNodes) :
           isStateNode(customNodes[i].id) =>
              \E j \in Indices(customNodes') : customNodes'[j] = customNodes[i] ]_vars

\* C9 witness: a delete has acted on a question node the state node names, and the state
\* node is still in the graph.
C9_Witness ==
    /\ phase = "editor"
    /\ \E i \in Indices(customNodes) :
          /\ isStateNode(customNodes[i].id)
          /\ \E id \in ConditionNodeIds(customNodes[i].compoundCondition) :
                ~NodeExists(customNodes, id)

\* fewer than two conditions, or all of them on one node
Degenerate(conditions) ==
    Len(conditions) < 2 \/ Cardinality(ConditionNodeIds(conditions)) = 1

----------------------------------------------------------------------------
(* The editor with the id input of the side panel.                         *)

\* bound on the number of edits of one session with id edits
MaxIdEditSteps == 5

\* the values typed or pasted into the id input of a row
IdEditInputs ==
    { <<"X">>, <<"B">>, <<"a","-","b">>, STATE_NODE_PREFIX \o <<"x">> }

\* variant: the id edit rewrites only the edges that leave the node
setNodeId_fromOnly(index, value) ==
    /\ phase = "editor"
    /\ ~isDialogOpen
    /\ LET oldId == customNodes[index].id
       IN /\ customNodes' = [customNodes EXCEPT ![index].id = value]
          /\ customEdges' =
                [ k \in Indices(customEdges) |->
                    [ customEdges[k] EXCEPT !.from = IF @ = oldId THEN value ELSE @ ] ]
    /\ UNCHANGED <<isDialogOpen, selectedSourceNode>>

\* variant: the id edit leaves the edges as they are
setNodeId_keepingEdges(index, value) ==
    /\ phase = "editor"
    /\ ~isDialogOpen
    /\ customNodes' = [customNodes EXCEPT ![index].id = value]
    /\ UNCHANGED <<customEdges, isDialogOpen, selectedSourceNode>>

\* variant: the id edit also rewrites the conditions that name the old id
setNodeId_rewritingConditions(index, value) ==
    /\ phase = "editor"
    /\ ~isDialogOpen
    /\ LET oldId == customNodes[index].id
       IN /\ customNodes' =
                [ i \in Indices(customNodes) |->
                    IF i = index THEN [customNodes[i] EXCEPT !.id = value]
                    ELSE [customNodes[i] EXCEPT !.compoundCondition =
                            [ k \in Indices(@) |->
                                [ @[k] EXCEPT !.nodeId = IF @ = oldId THEN value ELSE @ ] ] ] ]
          /\ customEdges' =
                [ k \in Indices(customEdges) |->
                    [ customEdges[k] EXCEPT
                        !.from = IF @ = oldId THEN value ELSE @,
                        !.to = IF @ = oldId THEN value ELSE @ ] ]
    /\ UNCHANGED <<isDialogOpen, selectedSourceNode>>

\* the onChange of the id input of a row: the id is stored as typed and the edge ends
\* that carried the old id are rewritten
setNodeId(index, value) ==
    /\ phase = "editor"
    /\ ~isDialogOpen
    /\ LET oldId == customNodes[index].id
       IN /\ customNodes' = [customNodes EXCEPT ![index].id = value]
          /\ customEdges' =
                [ k \in Indices(customEdges) |->
                    [ customEdges[k] EXCEPT
                        !.from = IF @ = oldId THEN value ELSE @,
                        !.to = IF @ = oldId THEN value ELSE @ ] ]
    /\ UNCHANGED <<isDialogOpen, selectedSourceNode>>

\* one more edit of a session of at most MaxIdEditSteps edits
TickIdEdit ==
    /\ steps < MaxIdEditSteps
    /\ steps' = steps + 1
    /\ UNCHANGED <<phase, identityVars, reachVars, callVars, renderVars>>

NextIdEdit ==
    \/ TickIdEdit /\ \E i \in Indices(customNodes) : handleNodeClick(customNodes[i].id)
    \/ TickIdEdit /\ CloseDialog
    \/ TickIdEdit /\ isDialogOpen /\ selectedSourceNode # <<>>
                  /\ \E f \in FormInputs : SubmitConnection(f)
    \/ TickIdEdit /\ addNode
    \/ TickIdEdit /\ \E index \in DisplayNodeIndices : removeNode(index)
    \/ TickIdEdit /\ \E index \in DisplayNodeIndices : \E category \in questionCategories :
                        setQuestionCategory(index, category)
    \/ TickIdEdit /\ \E index \in DisplayNodeIndices : addChoice(index)
    \/ TickIdEdit /\ \E index \in DisplayEdgeIndices : removeEdge(index)
    \/ TickIdEdit /\ \E index \in DisplayNodeIndices : \E value \in IdEditInputs :
                        setNodeId(index, value)

SpecIdEdit == Init /\ [][NextIdEdit]_vars

\* C11: no two nodes of the graph have the same id.
C11_NodeIdsUnique ==
    phase = "editor" =>
        \A i, j \in Indices(customNodes) : customNodes[i].id = customNodes[j].id => i = j

\* C12: every node id of the graph, the generated state-node ids included, matches
\* ^[A-Za-z][A-Za-z0-9_]*$ (and so holds no hyphen).
C12_IdGrammar ==
    phase = "editor" =>
        \A i \in Indices(customNodes) : validateNodeId(customNodes[i].id).valid

\* C13: a node whose id starts with the state prefix was made by a compound commit and
\* carries its compound condition.
C13_ReservedPrefix ==
    phase = "editor" =>
        \A i \in Indices(customNodes) :
            isStateNode(customNodes[i].id) => customNodes[i].compoundCondition # <<>>


----------------------------------------------------------------------------
(* The coverage checker, checkChoiceCoverage(nodes, edges): one result per  *)
(* SA/MA question node that has choices and is not a state node.            *)

MaxCoverageChoices == 2
MaxCoverageEdges == 2

\* String.prototype.includes
includes(s, sub) ==
    \E i \in 0..(Len(s) - Len(sub)) : SubSeq(s, i + 1, i + Len(sub)) = sub

\* Array.prototype.filter, Array.prototype.map
filter(s, Test(_)) == SelectSeq(s, Test)
map(s, F(_)) == [i \in Indices(s) |-> F(s[i])]

\* the nodes that get a coverage result
coverageNodes(nodes) ==
    filter(nodes, LAMBDA n : /\ n.questionCategory \in {"SA", "MA"}
                             /\ n.choices # <<>>
                             /\ ~isStateNode(n.id))

\* the direct outgoing edges of a node
outgoingEdges(node, edges) == filter(edges, LAMBDA e : e.from = node.id)

\* the ids of the choices whose label text appears inside the label of an outgoing edge
usedByLabel(node, edges) ==
    { node.choices[i].id : i \in { k \in Indices(node.choices) :
        \E j \in Indices(outgoingEdges(node, edges)) :
            includes(outgoingEdges(node, edges)[j].label, node.choices[k].label) } }

\* the ids the state nodes' compound conditions list for this node
usedByStateNodes(node, nodes) ==
    UNION { UNION { { c.choiceIds[k] : k \in Indices(c.choiceIds) } :
                    c \in { nodes[i].compoundCondition[j] :
                              j \in { m \in Indices(nodes[i].compoundCondition) :
                                        nodes[i].compoundCondition[m].nodeId = node.id } } } :
            i \in { n \in Indices(nodes) : isStateNode(nodes[n].id) } }

usedChoiceIds(node, nodes, edges) == usedByLabel(node, edges) \cup usedByStateNodes(node, nodes)

unusedChoices(node, nodes, edges) ==
    filter(node.choices, LAMBDA c : c.id \notin usedChoiceIds(node, nodes, edges))

\* variant: a node counts as covered as soon as no choice is unused
isCovered_withoutEdgeTest(node, nodes, edges) ==
    unusedChoices(node, nodes, edges) = <<>>

isCovered(node, nodes, edges) ==
    unusedChoices(node, nodes, edges) = <<>> /\ Len(outgoingEdges(node, edges)) > 0

CoverageResult(node, nodes, edges) ==
    [nodeId |-> node.id,
     unusedChoices |-> unusedChoices(node, nodes, edges),
     isCovered |-> isCovered(node, nodes, edges)]

checkChoiceCoverage(nodes, edges) ==
    map(coverageNodes(nodes), LAMBDA n : CoverageResult(n, nodes, edges))

\* the graphs the checker is called with: a question node Q with a category and choices, a
\* numeric question node R, an end node T, at most one state node, and edges out of Q and R
CoverageQId == <<"Q">>
CoverageRId == <<"R">>
CoverageTId == <<"T">>

CoverageChoice(k) ==
    [id |-> CoverageQId \o <<"_","o","p","t">> \o NatToString(k), label |-> <<fromCharCode65(k - 1)>>]

CoverageChoiceLists == { [k \in 1..n |-> CoverageChoice(k)] : n \in 0..MaxCoverageChoices }

CoverageCategoryInputs == {"SA", "MA", "NA", ""}

CoverageConditionInputs ==
    { <<>>,
      <<ChoiceCond(CoverageQId, <<CoverageChoice(1).id>>), NumericCond(CoverageRId, "gt", 5)>>,
      <<ChoiceCond(CoverageQId, <<CoverageChoice(1).id, CoverageChoice(2).id>>),
        NumericCond(CoverageRId, "gt", 5)>>,
      <<ChoiceCond(CoverageRId, <<CoverageChoice(1).id, CoverageChoice(2).id>>),
        NumericCond(CoverageQId, "gt", 5)>> }

CoverageNodeLists ==
    { << [Node(CoverageQId, <<"q">>, "rectangle") EXCEPT
             !.questionCategory = category, !.choices = choices],
         [Node(CoverageRId, <<"r">>, "rectangle") EXCEPT !.questionCategory = "NA"],
         Node(CoverageTId, <<"t">>, "stadium") >>
      \o (IF conds = <<>> THEN <<>>
          ELSE << [Node(generateStateNodeId(conds), <<"s">>, "hexagon") EXCEPT
                      !.compoundCondition = conds] >>) :
      category \in CoverageCategoryInputs, choices \in CoverageChoiceLists,
      conds \in CoverageConditionInputs }

CoverageEdgeLabelInputs ==
    { <<>>, <<"A">>, <<"x","A","y">>, <<"B">>, <<"A",","," ","B">> }

CoverageEdgeInputs ==
    { Edge(from, CoverageTId, label, "solid") :
        from \in {CoverageQId, CoverageRId}, label \in CoverageEdgeLabelInputs }

CoverageEdgeLists ==
    UNION { [1..n -> CoverageEdgeInputs] : n \in 0..MaxCoverageEdges }

CoverageInit ==
    /\ phase = "coverage"
    /\ steps = 0
    /\ customNodes = InitNodes /\ customEdges = InitEdges
    /\ isDialogOpen = FALSE /\ selectedSourceNode = <<>>
    /\ IdleIdentity
    /\ IdleReach
    /\ IdleRender
    /\ args \in { [nodes |-> nodes, edges |-> edges] :
                    nodes \in CoverageNodeLists, edges \in CoverageEdgeLists }
    /\ out = <<>>

CallFrame == UNCHANGED <<steps, phase, editorVars, identityVars, reachVars, args, renderVars>>

\* the call returns
callCheckChoiceCoverage ==
    /\ phase = "coverage"
    /\ out = <<>>
    /\ out' = <<checkChoiceCoverage(args.nodes, args.edges)>>
    /\ CallFrame

CoverageNext == callCheckChoiceCoverage

SpecCoverage == CoverageInit /\ [][CoverageNext]_vars

\* the set of the ids of a node's choices, of the labels of its outgoing edges, and of the ids
\* some state node lists for it
CoverageChoiceIds(n) == { n.choices[i].id : i \in Indices(n.choices) }
CoverageOutLabels(n) ==
    { args.edges[j].label : j \in { k \in Indices(args.edges) : args.edges[k].from = n.id } }
CoverageLabelMatched(n) ==
    { n.choices[i].id : i \in { k \in Indices(n.choices) :
        \E l \in CoverageOutLabels(n) : includes(l, n.choices[k].label) } }
CoverageListed(n) ==
    { id \in CoverageChoiceIds(n) :
        \E i \in Indices(args.nodes) :
            /\ isStateNode(args.nodes[i].id)
            /\ \E j \in Indices(args.nodes[i].compoundCondition) :
                 /\ args.nodes[i].compoundCondition[j].nodeId = n.id
                 /\ \E k \in Indices(args.nodes[i].compoundCondition[j].choiceIds) :
                        args.nodes[i].compoundCondition[j].choiceIds[k] = id }
CoverageSubject(n) ==
    n.questionCategory \in {"SA", "MA"} /\ n.choices # <<>> /\ ~isStateNode(n.id)

\* C14: every SA/MA question node with choices that is not a state node has a result, and the
\* result says covered exactly when each of its choice ids is matched by the label of an
\* outgoing edge or listed for the node by a state node, and the node has an outgoing edge.
C14_CoverageCompleteness ==
    (phase = "coverage" /\ out # <<>>) =>
        \A i \in Indices(args.nodes) :
            CoverageSubject(args.nodes[i]) =>
                /\ \E r \in Indices(out[1]) : out[1][r].nodeId = args.nodes[i].id
                /\ \A r \in Indices(out[1]) :
                     out[1][r].nodeId = args.nodes[i].id =>
                        (out[1][r].isCovered <=>
                            /\ CoverageChoiceIds(args.nodes[i]) \subseteq
                                 (CoverageLabelMatched(args.nodes[i])
                                    \cup CoverageListed(args.nodes[i]))
                            /\ CoverageOutLabels(args.nodes[i]) # {})

\* C14 witness: a returned call in which one choice is matched by an edge label only, the
\* other is listed by a state node only, and the node is covered.
C14_Witness ==
    /\ phase = "coverage" /\ out # <<>>
    /\ \E r \in Indices(out[1]) :
         /\ out[1][r].isCovered
         /\ \E i \in Indices(args.nodes) :
              /\ args.nodes[i].id = out[1][r].nodeId
              /\ Len(args.nodes[i].choices) = 2
              /\ CoverageLabelMatched(args.nodes[i]) = {CoverageChoice(2).id}
              /\ CoverageListed(args.nodes[i]) = {CoverageChoice(1).id}

----------------------------------------------------------------------------
(* FlowchartGenerator.generate: a FlowchartDefinition to Mermaid text.      *)
(* An absent optional field is the empty value: "" for a shape or a style,  *)
(* <<>> for a text, a list or an object.                                    *)

DQ == "\""
NL == "\n"
BS == "\\"

\* String.prototype.replace(/c/g, by): every occurrence of the character c
RECURSIVE replaceAll(_, _, _)
replaceAll(text, c, by) ==
    IF text = <<>> THEN <<>>
    ELSE (IF Head(text) = c THEN by ELSE <<Head(text)>>) \o replaceAll(Tail(text), c, by)

\* the concatenation of a list of lists (lines.push(...list) for each)
RECURSIVE flat(_)
flat(lists) == IF lists = <<>> THEN <<>> ELSE Head(lists) \o flat(Tail(lists))

\* JSON.stringify of the config object of generateInitDirective
JSONstringify(config) ==
    IF config.theme = <<>> THEN <<"{","}">>
    ELSE <<"{",DQ,"t","h","e","m","e",DQ,":",DQ>> \o config.theme \o <<DQ,"}">>

generateInitDirective(init) ==
    <<"%","%","{","i","n","i","t",":"," ">> \o JSONstringify([theme |-> init.theme]) \o <<"}","%","%">>

\* variant: the quotes of the text stay as they are
escapeText_keepQuotes(text) ==
    IF includes(text, <<DQ>>) \/ includes(text, <<NL>>)
    THEN <<DQ>> \o text \o <<DQ>>
    ELSE text

escapeText(text) ==
    IF includes(text, <<DQ>>) \/ includes(text, <<NL>>)
    THEN <<DQ>> \o replaceAll(text, DQ, <<"#","q","u","o","t",";">>) \o <<DQ>>
    ELSE text

NodeShapes ==
    {"rectangle", "round", "stadium", "subroutine", "database", "circle", "doubleCircle",
     "asymmetric", "rhombus", "hexagon", "parallelogram", "parallelogramAlt", "trapezoid",
     "trapezoidAlt"}

\* the token a shape puts before the text
openToken(shape) ==
    CASE shape = "rectangle" -> <<"[">>
      [] shape = "round" -> <<"(">>
      [] shape = "stadium" -> <<"(","[">>
      [] shape = "subroutine" -> <<"[","[">>
      [] shape = "database" -> <<"[","(">>
      [] shape = "circle" -> <<"(","(">>
      [] shape = "doubleCircle" -> <<"(","(","(">>
      [] shape = "asymmetric" -> <<">">>
      [] shape = "rhombus" -> <<"{">>
      [] shape = "hexagon" -> <<"{","{">>
      [] shape = "parallelogram" -> <<"[","/">>
      [] shape = "parallelogramAlt" -> <<"[",BS>>
      [] shape = "trapezoid" -> <<"[","/">>
      [] shape = "trapezoidAlt" -> <<"[",BS>>
      [] OTHER -> <<"[">>

\* variant: the trapezoid closes as the parallelogram does
closeToken_trapezoidAsParallelogram(shape) ==
    CASE shape = "rectangle" -> <<"]">>
      [] shape = "round" -> <<")">>
      [] shape = "stadium" -> <<"]",")">>
      [] shape = "subroutine" -> <<"]","]">>
      [] shape = "database" -> <<")","]">>
      [] shape = "circle" -> <<")",")">>
      [] shape = "doubleCircle" -> <<")",")",")">>
      [] shape = "asymmetric" -> <<"]">>
      [] shape = "rhombus" -> <<"}">>
      [] shape = "hexagon" -> <<"}","}">>
      [] shape = "parallelogram" -> <<"/","]">>
      [] shape = "parallelogramAlt" -> <<BS,"]">>
      [] shape = "trapezoid" -> <<"/","]">>
      [] shape = "trapezoidAlt" -> <<"/","]">>
      [] OTHER -> <<"]">>

\* the token a shape puts after the text
closeToken(shape) ==
    CASE shape = "rectangle" -> <<"]">>
      [] shape = "round" -> <<")">>
      [] shape = "stadium" -> <<"]",")">>
      [] shape = "subroutine" -> <<"]","]">>
      [] shape = "database" -> <<")","]">>
      [] shape = "circle" -> <<")",")">>
      [] shape = "doubleCircle" -> <<")",")",")">>
      [] shape = "asymmetric" -> <<"]">>
      [] shape = "rhombus" -> <<"}">>
      [] shape = "hexagon" -> <<"}","}">>
      [] shape = "parallelogram" -> <<"/","]">>
      [] shape = "parallelogramAlt" -> <<BS,"]">>
      [] shape = "trapezoid" -> <<BS,"]">>
      [] shape = "trapezoidAlt" -> <<"/","]">>
      [] OTHER -> <<"]">>

wrapNodeText(text, shape) == openToken(shape) \o escapeText(text) \o closeToken(shape)

\* variant: a node without a shape is drawn round
generateNode_roundFallback(node) ==
    node.id
      \o wrapNodeText(node.label, IF node.shape # "" THEN node.shape ELSE "round")
      \o (IF node.className # <<>> THEN <<":",":",":">> \o node.className ELSE <<>>)

generateNode(node) ==
    node.id
      \o wrapNodeText(node.label, IF node.shape # "" THEN node.shape ELSE "rectangle")
      \o (IF node.className # <<>> THEN <<":",":",":">> \o node.className ELSE <<>>)

\* variant: the quotes of an edge label stay as they are
escapeEdgeLabel_keepQuotes(text) ==
    replaceAll(replaceAll(text, ">", <<"&","g","t",";">>), "<", <<"&","l","t",";">>)

escapeEdgeLabel(text) ==
    replaceAll(replaceAll(replaceAll(text, ">", <<"&","g","t",";">>), "<", <<"&","l","t",";">>), DQ, <<"&","q","u","o","t",";">>)

EdgeStyles ==
    {"solid", "dotted", "thick", "solidNoArrow", "dottedNoArrow", "thickNoArrow",
     "biDirectional", "circleEnd", "crossEnd"}

getArrowSyntax(style) ==
    CASE style = "solid" -> <<"-","-",">">>
      [] style = "dotted" -> <<"-",".","-",">">>
      [] style = "thick" -> <<"=","=",">">>
      [] style = "solidNoArrow" -> <<"-","-","-">>
      [] style = "dottedNoArrow" -> <<"-",".","-">>
      [] style = "thickNoArrow" -> <<"=","=","=">>
      [] style = "biDirectional" -> <<"<","-","-",">">>
      [] style = "circleEnd" -> <<"-","-","o">>
      [] style = "crossEnd" -> <<"-","-","x">>
      [] OTHER -> <<"-","-",">">>

generateEdge(edge) ==
    IF edge.label # <<>>
    THEN edge.from \o <<" ">> \o getArrowSyntax(IF edge.style # "" THEN edge.style ELSE "solid")
           \o <<"|">> \o escapeEdgeLabel(edge.label) \o <<"|"," ">> \o edge.to
    ELSE edge.from \o <<" ">> \o getArrowSyntax(IF edge.style # "" THEN edge.style ELSE "solid")
           \o <<" ">> \o edge.to

generateSubgraph(subgraph) ==
    << <<" "," "," "," ","s","u","b","g","r","a","p","h"," ">> \o subgraph.id \o <<"[">> \o subgraph.title \o <<"]">> >>
      \o (IF subgraph.direction # <<>>
          THEN << <<" "," "," "," "," "," "," "," ","d","i","r","e","c","t","i","o","n"," ">> \o subgraph.direction >> ELSE <<>>)
      \o map(subgraph.nodeIds, LAMBDA nodeId : <<" "," "," "," "," "," "," "," ">> \o nodeId)
      \o << <<" "," "," "," ","e","n","d">> >>

\* Object.entries(styles).map(([key, value]) => `${key}:${value}`).join(',')
styleStr(styles) == join(map(styles, LAMBDA kv : kv[1] \o <<":">> \o kv[2]), <<",">>)

generateStyleDef(style) == <<"c","l","a","s","s","D","e","f"," ">> \o style.className \o <<" ">> \o styleStr(style.styles)

generateLinkStyle(linkStyle) ==
    <<"l","i","n","k","S","t","y","l","e"," ">> \o NumberToString(linkStyle.linkIndex) \o <<" ">> \o styleStr(linkStyle.styles)

generateClickEvent(node) ==
    IF node.click[1].type = "callback"
    THEN <<"c","l","i","c","k"," ">> \o node.id \o <<" ","c","a","l","l"," ">> \o node.click[1].target \o <<"(",")">>
           \o (IF node.click[1].tooltip # <<>>
               THEN <<" ",DQ>> \o node.click[1].tooltip \o <<DQ>> ELSE <<>>)
    ELSE <<"c","l","i","c","k"," ">> \o node.id \o <<" ",DQ>> \o node.click[1].target \o <<DQ>>
           \o (IF node.click[1].tooltip # <<>>
               THEN <<" ",DQ>> \o node.click[1].tooltip \o <<DQ>> ELSE <<>>)

indent(line) == <<" "," "," "," ">> \o line

\* variant: the click directives come right after the node lines
generateLines_clicksAfterNodes(definition) ==
    (IF definition.init # <<>> THEN <<generateInitDirective(definition.init[1])>> ELSE <<>>)
      \o << <<"f","l","o","w","c","h","a","r","t"," ">> \o definition.direction >>
      \o map(definition.nodes, LAMBDA node : indent(generateNode(node)))
      \o map(filter(definition.nodes, LAMBDA node : node.click # <<>>),
             LAMBDA node : indent(generateClickEvent(node)))
      \o map(definition.edges, LAMBDA edge : indent(generateEdge(edge)))
      \o flat(map(definition.subgraphs, LAMBDA subgraph : generateSubgraph(subgraph)))
      \o map(definition.styles, LAMBDA style : indent(generateStyleDef(style)))
      \o map(definition.linkStyles, LAMBDA linkStyle : indent(generateLinkStyle(linkStyle)))

\* the lines array of generate
generateLines(definition) ==
    (IF definition.init # <<>> THEN <<generateInitDirective(definition.init[1])>> ELSE <<>>)
      \o << <<"f","l","o","w","c","h","a","r","t"," ">> \o definition.direction >>
      \o map(definition.nodes, LAMBDA node : indent(generateNode(node)))
      \o map(definition.edges, LAMBDA edge : indent(generateEdge(edge)))
      \o flat(map(definition.subgraphs, LAMBDA subgraph : generateSubgraph(subgraph)))
      \o map(definition.styles, LAMBDA style : indent(generateStyleDef(style)))
      \o map(definition.linkStyles, LAMBDA linkStyle : indent(generateLinkStyle(linkStyle)))
      \o map(filter(definition.nodes, LAMBDA node : node.click # <<>>),
             LAMBDA node : indent(generateClickEvent(node)))

generate(definition) == join(generateLines(definition), <<NL>>)

\* the definitions generate is called with
MaxLabelLen == 2
MaxGenNodes == 2
MaxGenEdges == 2

Texts(alphabet, n) == UNION { [1..k -> alphabet] : k \in 0..n }

NodeLabelInputs == Texts({"a", DQ, NL, "(", "]"}, MaxLabelLen)

EdgeLabelInputs == Texts({"a", ">", "<", DQ}, MaxLabelLen)

FlowchartNode(id, label, shape, className, click) ==
    [id |-> id, label |-> label, shape |-> shape, className |-> className, click |-> click]

FlowchartEdge(from, to, label, style) ==
    [from |-> from, to |-> to, label |-> label, style |-> style]

FlowchartDefinition(init, direction, nodes, edges, subgraphs, styles, linkStyles) ==
    [init |-> init, direction |-> direction, nodes |-> nodes, edges |-> edges,
     subgraphs |-> subgraphs, styles |-> styles, linkStyles |-> linkStyles]

\* one node of every shape, or of none, with every label
ShapeDefinitions ==
    { FlowchartDefinition(<<>>, <<"T","D">>,
          << FlowchartNode(<<"A">>, label, shape, <<>>, <<>>) >>, <<>>, <<>>, <<>>, <<>>) :
      label \in NodeLabelInputs, shape \in NodeShapes \cup {""} }

\* one edge of every style, or of none, with every label, between nodes that exist or not
EdgeDefinitions ==
    { FlowchartDefinition(<<>>, <<"T","D">>,
          << FlowchartNode(<<"A">>, <<"a">>, "", <<>>, <<>>),
             FlowchartNode(<<"B">>, <<"b">>, "rhombus", <<>>, <<>>) >>,
          << FlowchartEdge(from, to, label, style) >>, <<>>, <<>>, <<>>) :
      from \in { <<"A">>, <<"Z">> }, to \in { <<"B">>, <<"Z">> },
      label \in EdgeLabelInputs, style \in EdgeStyles \cup {""} }

OrderNodeInputs ==
    { FlowchartNode(<<"A">>, <<"a">>, "", <<>>, <<>>),
      FlowchartNode(<<"A">>, <<"a">>, "round", <<>>,
                    << [type |-> "link", target |-> <<"u">>, tooltip |-> <<>>] >>),
      FlowchartNode(<<"B">>, <<"b">>, "", <<"h","l">>,
                    << [type |-> "callback", target |-> <<"f">>, tooltip |-> <<"t">>] >>),
      FlowchartNode(<<"B">>, <<"b">>, "circle", <<>>, <<>>) }

OrderEdgeInputs ==
    { FlowchartEdge(<<"A">>, <<"B">>, <<>>, ""), FlowchartEdge(<<"B">>, <<"A">>, <<"x">>, "dotted") }

OrderSubgraphInputs ==
    { <<>>,
      << [id |-> <<"g">>, title |-> <<"G">>, direction |-> <<>>, nodeIds |-> << <<"A">> >>] >>,
      << [id |-> <<"g">>, title |-> <<"G">>, direction |-> <<"L","R">>,
          nodeIds |-> << <<"A">>, <<"B">> >>] >> }

OrderStyleInputs ==
    { <<>>, << [className |-> <<"h","l">>,
                styles |-> << << <<"f","i","l","l">>, <<"#","f","0","0">> >>, << <<"c","o","l","o","r">>, <<"#","f","f","f">> >> >>] >> }

OrderLinkStyleInputs ==
    { <<>>, << [linkIndex |-> 0, styles |-> << << <<"s","t","r","o","k","e">>, <<"#","0","0","f">> >> >>] >> }

\* every section present or absent, with up to MaxGenNodes nodes and MaxGenEdges edges
OrderDefinitions ==
    { FlowchartDefinition(init, direction, nodes, edges, subgraphs, styles, linkStyles) :
      init \in { <<>>, << [theme |-> <<"d","a","r","k">>] >> },
      direction \in { <<"L","R">> },
      nodes \in UNION { [1..n -> OrderNodeInputs] : n \in 0..MaxGenNodes },
      edges \in UNION { [1..n -> OrderEdgeInputs] : n \in 0..MaxGenEdges },
      subgraphs \in OrderSubgraphInputs,
      styles \in OrderStyleInputs,
      linkStyles \in OrderLinkStyleInputs }

GenerateInputs == ShapeDefinitions \cup EdgeDefinitions \cup OrderDefinitions

GenerateInit ==
    /\ phase = "generate"
    /\ steps = 0
    /\ customNodes = InitNodes /\ customEdges = InitEdges
    /\ isDialogOpen = FALSE /\ selectedSourceNode = <<>>
    /\ IdleIdentity
    /\ IdleReach
    /\ IdleRender
    /\ args \in GenerateInputs
    /\ out = <<>>

\* the call returns
callGenerate ==
    /\ phase = "generate"
    /\ out = <<>>
    /\ out' = <<generate(args)>>
    /\ CallFrame

GenerateNext == callGenerate

SpecGenerate == GenerateInit /\ [][GenerateNext]_vars

----------------------------------------------------------------------------
(* Properties of the generated text.                                        *)

Returned == phase = "generate" /\ out # <<>>

endsWith(s, p) == Len(s) >= Len(p) /\ SubSeq(s, Len(s) - Len(p) + 1, Len(s)) = p

\* the text between a prefix and a suffix of s
between(s, p, q) == SubSeq(s, Len(p) + 1, Len(s) - Len(q))

\* s is p, then some text, then q
framedBy(s, p, q) == Len(s) >= Len(p) + Len(q) /\ startsWith(s, p) /\ endsWith(s, q)

\* String.prototype.split on one character
RECURSIVE split(_, _)
split(text, c) ==
    IF \A i \in Indices(text) : text[i] # c THEN <<text>>
    ELSE LET i == CHOOSE k \in Indices(text) :
                      text[k] = c /\ \A m \in 1..(k - 1) : text[m] # c
         IN  <<SubSeq(text, 1, i - 1)>> \o split(SubSeq(text, i + 1, Len(text)), c)

\* the lines of the returned text; each entry is a line when no label holds a newline
Lines == split(out[1], NL)

NoNewlineInput == \A i \in Indices(args.nodes) : ~includes(args.nodes[i].label, <<NL>>)

InitCount == IF args.init # <<>> THEN 1 ELSE 0

NodeLine(i) == Lines[InitCount + 1 + i]

EdgeLine(j) == Lines[InitCount + 1 + Len(args.nodes) + j]

ClassSuffix(node) == IF node.className # <<>> THEN <<":",":",":">> \o node.className ELSE <<>>

Dangling(edge) ==
    \/ \A i \in Indices(args.nodes) : args.nodes[i].id # edge.from
    \/ \A i \in Indices(args.nodes) : args.nodes[i].id # edge.to

\* C15: a call returns a text for every definition; the line of an edge starts with its from
\* id and ends with its to id, whether these are ids of nodes or not; a node without a shape
\* is wrapped as a rectangle and an edge without a style gets the arrow -->.
C15_SerializerTotality ==
    Returned =>
        /\ \A k \in Indices(out[1]) : out[1][k] \in STRING
        /\ NoNewlineInput =>
             /\ Len(Lines) >= InitCount + 1 + Len(args.nodes) + Len(args.edges)
             /\ \A j \in Indices(args.edges) :
                  /\ framedBy(EdgeLine(j), <<" "," "," "," ">> \o args.edges[j].from \o <<" ">>,
                              <<" ">> \o args.edges[j].to)
                  /\ args.edges[j].style = "" =>
                       startsWith(EdgeLine(j), <<" "," "," "," ">> \o args.edges[j].from \o <<" ","-","-",">">>)
                  /\ (args.edges[j].style = "" /\ args.edges[j].label = <<>>) =>
                       EdgeLine(j) = <<" "," "," "," ">> \o args.edges[j].from \o <<" ","-","-",">"," ">>
                                       \o args.edges[j].to
             /\ \A i \in Indices(args.nodes) :
                  (args.nodes[i].shape = "" /\ ~includes(args.nodes[i].label, <<DQ>>)) =>
                       NodeLine(i) = <<" "," "," "," ">> \o args.nodes[i].id \o <<"[">>
                                       \o args.nodes[i].label \o <<"]">>
                                       \o ClassSuffix(args.nodes[i])

\* C15 witness: a returned call whose edge has no style and joins two ids that are not ids of
\* nodes, next to a node without a shape.
C15_Witness ==
    /\ Returned
    /\ \E j \in Indices(args.edges) :
         /\ args.edges[j].style = ""
         /\ \A i \in Indices(args.nodes) :
              args.nodes[i].id \notin {args.edges[j].from, args.edges[j].to}
    /\ \E i \in Indices(args.nodes) : args.nodes[i].shape = ""

\* the number of lines of the subgraph blocks
RECURSIVE SubgraphLineCount(_)
SubgraphLineCount(subgraphs) ==
    IF subgraphs = <<>> THEN 0
    ELSE 2 + (IF Head(subgraphs).direction # <<>> THEN 1 ELSE 0)
           + Len(Head(subgraphs).nodeIds) + SubgraphLineCount(Tail(subgraphs))

\* the indices of the nodes that have a click binding, in input order
ClickNodeIndices == { i \in Indices(args.nodes) : args.nodes[i].click # <<>> }

ClickRank(i) == Cardinality({ k \in ClickNodeIndices : k <= i })

\* where each section of the text starts: the line before its first line
NodesAt == InitCount + 1
EdgesAt == NodesAt + Len(args.nodes)
SubgraphsAt == EdgesAt + Len(args.edges)
StylesAt == SubgraphsAt + SubgraphLineCount(args.subgraphs)
LinkStylesAt == StylesAt + Len(args.styles)
ClicksAt == LinkStylesAt + Len(args.linkStyles)

\* C16: the text is the init directive if there is one, the flowchart line, the nodes in input
\* order, the edges in input order, the subgraph blocks, the classDef lines, the linkStyle
\* lines and last one click directive for each node that has a click binding, in input order;
\* no other line is a click directive.
C16_EmissionOrder ==
    (Returned /\ NoNewlineInput) =>
        /\ Len(Lines) = ClicksAt + Cardinality(ClickNodeIndices)
        /\ args.init # <<>> => startsWith(Lines[1], <<"%","%","{","i","n","i","t",":"," ">>)
        /\ Lines[InitCount + 1] = <<"f","l","o","w","c","h","a","r","t"," ">> \o args.direction
        /\ \A i \in Indices(args.nodes) :
             startsWith(Lines[NodesAt + i], <<" "," "," "," ">> \o args.nodes[i].id)
               /\ ~startsWith(Lines[NodesAt + i], <<" "," "," "," ","c","l","i","c","k"," ">>)
        /\ \A j \in Indices(args.edges) :
             startsWith(Lines[EdgesAt + j], <<" "," "," "," ">> \o args.edges[j].from \o <<" ">>)
        /\ args.subgraphs # <<>> =>
             /\ startsWith(Lines[SubgraphsAt + 1], <<" "," "," "," ","s","u","b","g","r","a","p","h"," ">> \o args.subgraphs[1].id)
             /\ Lines[StylesAt] = <<" "," "," "," ","e","n","d">>
        /\ \A k \in Indices(args.styles) :
             startsWith(Lines[StylesAt + k], <<" "," "," "," ","c","l","a","s","s","D","e","f"," ">> \o args.styles[k].className)
        /\ \A k \in Indices(args.linkStyles) :
             startsWith(Lines[LinkStylesAt + k], <<" "," "," "," ","l","i","n","k","S","t","y","l","e"," ">>)
        /\ \A i \in ClickNodeIndices :
             startsWith(Lines[ClicksAt + ClickRank(i)],
                        <<" "," "," "," ","c","l","i","c","k"," ">> \o args.nodes[i].id \o <<" ">>)
        /\ \A k \in Indices(Lines) :
             startsWith(Lines[k], <<" "," "," "," ","c","l","i","c","k"," ">>) => k > ClicksAt

\* C16 witness: a returned call with every section, two nodes of which the second alone has a
\* click binding, and an edge.
C16_Witness ==
    /\ Returned /\ NoNewlineInput
    /\ args.init # <<>> /\ args.subgraphs # <<>> /\ args.styles # <<>>
    /\ args.linkStyles # <<>> /\ args.edges # <<>>
    /\ Len(args.nodes) = 2 /\ ClickNodeIndices = {2}
    /\ Lines[Len(Lines)] = <<" "," "," "," ","c","l","i","c","k"," ","B"," ","c","a","l","l"," ","f","(",")"," ",DQ,"t",DQ>>

\* a definition of one node and nothing else: the text is the flowchart line and the node
SingleNodeInput ==
    /\ Len(args.nodes) = 1 /\ args.nodes[1].className = <<>> /\ args.nodes[1].click = <<>>
    /\ args.init = <<>> /\ args.edges = <<>> /\ args.subgraphs = <<>>
    /\ args.styles = <<>> /\ args.linkStyles = <<>>

\* what precedes the wrapped label of that node, and the wrapped label
NodePrefix == <<"f","l","o","w","c","h","a","r","t"," ">> \o args.direction \o <<NL>> \o <<" "," "," "," ">> \o args.nodes[1].id

WrappedLabel == between(out[1], NodePrefix, <<>>)

PlainLabel(label) == ~includes(label, <<DQ>>) /\ ~includes(label, <<NL>>)

\* C17: for each of the 14 shapes and each label without a quote or a newline, the emitted
\* node is the shape's opening token, the label unchanged, and the shape's closing token; and
\* no two of the 14 shapes have the same pair of tokens.
C17_ShapeRoundTrip ==
    /\ (Returned /\ SingleNodeInput /\ args.nodes[1].shape \in NodeShapes
          /\ PlainLabel(args.nodes[1].label)) =>
          /\ startsWith(out[1], NodePrefix)
          /\ framedBy(WrappedLabel, openToken(args.nodes[1].shape),
                      closeToken(args.nodes[1].shape))
          /\ between(WrappedLabel, openToken(args.nodes[1].shape),
                     closeToken(args.nodes[1].shape)) = args.nodes[1].label
    /\ Returned =>
          /\ Cardinality(NodeShapes) = 14
          /\ \A s1, s2 \in NodeShapes :
                s1 # s2 => <<openToken(s1), closeToken(s1)>> # <<openToken(s2), closeToken(s2)>>

\* C17 witness: a returned call for a trapezoid whose label is itself made of bracket
\* characters.
C17_Witness ==
    /\ Returned /\ SingleNodeInput
    /\ args.nodes[1].shape = "trapezoid"
    /\ args.nodes[1].label = <<"(","]">>
    /\ WrappedLabel = <<"[","/","(","]",BS,"]">>

\* the entity that stands for a character in an edge label
EdgeEntity(c) ==
    CASE c = ">" -> <<"&","g","t",";">>
      [] c = "<" -> <<"&","l","t",";">>
      [] c = DQ -> <<"&","q","u","o","t",";">>
      [] OTHER -> <<c>>

ArrowOf(edge) == getArrowSyntax(IF edge.style # "" THEN edge.style ELSE "solid")

\* what precedes and what follows the label of a labelled edge in its line
LabelledEdgePrefix(edge) == <<" "," "," "," ">> \o edge.from \o <<" ">> \o ArrowOf(edge) \o <<"|">>

LabelledEdgeSuffix(edge) == <<"|"," ">> \o edge.to

EmittedEdgeLabel(j) ==
    between(EdgeLine(j), LabelledEdgePrefix(args.edges[j]), LabelledEdgeSuffix(args.edges[j]))

\* C18: the line of an edge with a label is `from <arrow>|text| to`, where text is the label
\* with each >, < and " replaced by its entity, so that text holds none of the three; the line
\* of an edge without a label is `from <arrow> to` and holds no | at all.
C18_EdgeLabelEscaping ==
    (Returned /\ NoNewlineInput) =>
        \A j \in Indices(args.edges) :
            /\ args.edges[j].label # <<>> =>
                 /\ framedBy(EdgeLine(j), LabelledEdgePrefix(args.edges[j]),
                             LabelledEdgeSuffix(args.edges[j]))
                 /\ \A k \in Indices(EmittedEdgeLabel(j)) :
                        EmittedEdgeLabel(j)[k] \notin {">", "<", DQ}
                 /\ EmittedEdgeLabel(j)
                      = flat([k \in Indices(args.edges[j].label) |->
                                 EdgeEntity(args.edges[j].label[k])])
            /\ args.edges[j].label = <<>> =>
                 /\ EdgeLine(j) = <<" "," "," "," ">> \o args.edges[j].from \o <<" ">>
                                    \o ArrowOf(args.edges[j]) \o <<" ">> \o args.edges[j].to
                 /\ \A k \in Indices(EdgeLine(j)) : EdgeLine(j)[k] # "|"

\* C18 witness: a returned call whose edge is bidirectional and labelled with a quote and a >.
C18_Witness ==
    /\ Returned /\ NoNewlineInput
    /\ \E j \in Indices(args.edges) :
         /\ args.edges[j].label = << DQ, ">" >>
         /\ args.edges[j].style = "biDirectional"
         /\ EdgeLine(j) = <<" "," "," "," ","A"," ","<","-","-",">","|","&","q","u","o","t",";","&","g","t",";","|"," ","B">>

\* the entity that stands for a quote in a node label
NodeEntity(c) == IF c = DQ THEN <<"#","q","u","o","t",";">> ELSE <<c>>

ShapeOf(node) == IF node.shape # "" THEN node.shape ELSE "rectangle"

\* the label of the single node as it is emitted between the tokens of its shape
EmittedNodeLabel ==
    between(WrappedLabel, openToken(ShapeOf(args.nodes[1])), closeToken(ShapeOf(args.nodes[1])))

\* C19: a node label that holds a quote or a newline is emitted between two quotes, each of its
\* own quotes replaced by #quot; and nothing else changed, so that no quote stands between the
\* two delimiters; a label that holds neither is emitted unchanged.
C19_NodeLabelEscaping ==
    (Returned /\ SingleNodeInput) =>
        /\ startsWith(out[1], NodePrefix)
        /\ framedBy(WrappedLabel, openToken(ShapeOf(args.nodes[1])),
                    closeToken(ShapeOf(args.nodes[1])))
        /\ ~PlainLabel(args.nodes[1].label) =>
             /\ framedBy(EmittedNodeLabel, <<DQ>>, <<DQ>>)
             /\ \A k \in Indices(between(EmittedNodeLabel, <<DQ>>, <<DQ>>)) :
                    between(EmittedNodeLabel, <<DQ>>, <<DQ>>)[k] # DQ
             /\ between(EmittedNodeLabel, <<DQ>>, <<DQ>>)
                  = flat([k \in Indices(args.nodes[1].label) |->
                             NodeEntity(args.nodes[1].label[k])])
        /\ PlainLabel(args.nodes[1].label) => EmittedNodeLabel = args.nodes[1].label

\* C19 witness: a returned call for a node whose label is a quote and a newline.
C19_Witness ==
    /\ Returned /\ SingleNodeInput
    /\ args.nodes[1].label = << DQ, NL >>
    /\ EmittedNodeLabel = <<DQ>> \o <<"#","q","u","o","t",";">> \o <<NL, DQ>>

----------------------------------------------------------------------------
(* validateNodeId called on its own.                                        *)

MaxIdLen == 3

\* the ids validateNodeId is called with: letters, digits, the underscore, and characters
\* outside the grammar
ValidateInputs == Texts({"a", "Z", "0", "9", "_", "-", " ", NL}, MaxIdLen)

ValidateInit ==
    /\ phase = "validate"
    /\ steps = 0
    /\ customNodes = InitNodes /\ customEdges = InitEdges
    /\ isDialogOpen = FALSE /\ selectedSourceNode = <<>>
    /\ IdleIdentity
    /\ IdleReach
    /\ IdleRender
    /\ args \in ValidateInputs
    /\ out = <<>>

\* the call returns
callValidateNodeId ==
    /\ phase = "validate"
    /\ out = <<>>
    /\ out' = <<validateNodeId(args)>>
    /\ CallFrame

ValidateNext == callValidateNodeId

SpecValidate == ValidateInit /\ [][ValidateNext]_vars

\* a run of the automaton of ^[a-zA-Z][a-zA-Z0-9_]*$ : "start" before the first character,
\* "body" after a letter, "reject" for good after a character that does not fit
RECURSIVE IdAutomaton(_, _)
IdAutomaton(state, text) ==
    IF text = <<>> THEN state
    ELSE IdAutomaton(
            CASE state = "start" /\ Head(text) \in Letters -> "body"
              [] state = "body" /\ Head(text) \in Letters \cup Digits \cup {"_"} -> "body"
              [] OTHER -> "reject",
            Tail(text))

MatchesIdGrammar(id) == IdAutomaton("start", id) = "body"

\* C20: a call of validateNodeId returns a result; the result is valid exactly when the id is
\* not empty and matches ^[a-zA-Z][a-zA-Z0-9_]*$, and a result that is not valid carries a
\* message.
C20_ValidateNodeId ==
    (phase = "validate" /\ out # <<>>) =>
        /\ out[1].valid \in BOOLEAN
        /\ out[1].valid <=> (args # <<>> /\ MatchesIdGrammar(args))
        /\ ~out[1].valid => out[1].message # ""

\* C20 witness: the returned call for an id that holds a hyphen is not valid and carries the
\* message of the grammar.
C20_Witness ==
    /\ phase = "validate" /\ out # <<>>
    /\ args = <<"a","-","Z">>
    /\ ~out[1].valid /\ out[1].message = "grammar"

----------------------------------------------------------------------------
(* Further properties of the editor.                                       *)

\* the edges a step appended to customEdges
AddedEdges == SubSeq(customEdges', Len(customEdges) + 1, Len(customEdges'))

\* C21: a compound commit appends exactly one edge that leaves the state node; it leads to
\* the target of the commit and carries the label and the style of the commit.
C21_StateNodeOutgoingEdge ==
    [][ (phase = "editor" /\ isDialogOpen /\ selectedSourceNode # <<>>) =>
          \A f \in FormInputs :
             (takesCompoundBranch(f) /\ SubmitConnection(f)) =>
                LET result == handleAddConnection(f)[1]
                    stateNodeId == generateStateNodeId(result.compoundCondition)
                    leaving == SelectSeq(AddedEdges, LAMBDA e : e.from = stateNodeId)
                IN /\ Len(leaving) = 1
                   /\ leaving[1] = Edge(stateNodeId, result.targetNodeId, f.conditionLabel,
                                        f.edgeStyle) ]_vars

\* C21 witness: after one compound commit the state node has one edge leaving it, a solid
\* edge with the label of the commit.
C21_Witness ==
    /\ phase = "editor"
    /\ Len(StateNodes(customNodes)) = 1
    /\ Len(SelectSeq(customEdges, LAMBDA e : e.from = StateNodes(customNodes)[1].id)) = 1
    /\ \E k \in Indices(customEdges) :
          /\ customEdges[k].from = StateNodes(customNodes)[1].id
          /\ customEdges[k].label = <<"o","k">>
          /\ customEdges[k].style = "solid"

\* the ids of the nodes that are state nodes: by their prefix or by their payload
StateNodeIds ==
    { customNodes[i].id : i \in { j \in Indices(customNodes) :
        isStateNode(customNodes[j].id) \/ customNodes[j].compoundCondition # <<>> } }

\* C22: the node list and the edge list of the side panel and the target list of the dialog
\* hold no state node (no id with the prefix, no node with a compound condition) and no edge
\* that starts or ends at one.
C22_StateNodesHidden ==
    phase = "editor" =>
        /\ \A i \in Indices(displayNodes) :
              /\ ~isStateNode(displayNodes[i].id)
              /\ displayNodes[i].compoundCondition = <<>>
        /\ \A k \in Indices(displayEdges) :
              /\ ~isStateNode(displayEdges[k].from) /\ ~isStateNode(displayEdges[k].to)
              /\ displayEdges[k].from \notin StateNodeIds
              /\ displayEdges[k].to \notin StateNodeIds
        /\ (isDialogOpen /\ selectedSourceNode # <<>>) =>
              \A i \in Indices(selectableNodes) :
                 /\ ~isStateNode(selectableNodes[i].id)
                 /\ selectableNodes[i].compoundCondition = <<>>

\* C22 witness: the dialog is open on a graph with a state node and edges at it, and the
\* three lists are shorter than the graph.
C22_Witness ==
    /\ phase = "editor" /\ isDialogOpen /\ selectedSourceNode # <<>>
    /\ \E i \in Indices(customNodes) : customNodes[i].compoundCondition # <<>>
    /\ Len(displayNodes) < Len(customNodes)
    /\ Len(displayEdges) < Len(customEdges)
    /\ Len(selectableNodes) < Len(customNodes) - 1

\* the ids of the state nodes whose compound condition names the id X
ReferencingStateIds(X) ==
    { customNodes[i].id : i \in { j \in Indices(customNodes) :
        /\ isStateNode(customNodes[j].id)
        /\ X \in ConditionNodeIds(customNodes[j].compoundCondition) } }

\* C23: the delete of the node X at a row leaves, in their order, every other node that is
\* not a state node naming X, and every edge that touches neither X nor such a state node.
C23_DeleteFrame ==
    [][ (phase = "editor" /\ ~isDialogOpen) =>
          \A index \in DisplayNodeIndices :
             removeNode(index) =>
                LET X == customNodes[index].id
                    gone == {X} \cup ReferencingStateIds(X)
                IN /\ SelectSeq(customNodes', LAMBDA n : n.id \notin ReferencingStateIds(X))
                        = SelectSeq(RemoveAt(customNodes, index),
                                    LAMBDA n : n.id \notin ReferencingStateIds(X))
                   /\ SelectSeq(customEdges',
                                LAMBDA e : e.from \notin gone /\ e.to \notin gone)
                        = SelectSeq(customEdges,
                                    LAMBDA e : e.from \notin gone /\ e.to \notin gone) ]_vars

\* C23 witness: A was deleted from a graph with a state node over A and B; B is still there
\* with its edge to C.
C23_Witness ==
    /\ phase = "editor"
    /\ ~NodeExists(customNodes, <<"A">>)
    /\ \E i \in Indices(customNodes) :
          /\ isStateNode(customNodes[i].id)
          /\ ConditionNodeIds(customNodes[i].compoundCondition) = { <<"A">>, <<"B">> }
    /\ \E i \in Indices(customNodes) :
          customNodes[i].id = <<"B">> /\ customNodes[i].questionCategory # ""
    /\ \E k \in Indices(customEdges) :
          customEdges[k].from = <<"B">> /\ customEdges[k].to = <<"C">>

\* the nodes that carry a compound condition, in list order
PayloadNodes(nodes) == SelectSeq(nodes, LAMBDA n : n.compoundCondition # <<>>)

\* C24: no step changes a node that carries a compound condition: after every step the
\* nodes with a compound condition are those before it, with the same id, label, shape and
\* condition and in the same order, followed by at most one new one, whose id none of them has.
C24_PayloadImmutable ==
    [][ LET before == PayloadNodes(customNodes)
            after == PayloadNodes(customNodes')
        IN /\ Len(after) >= Len(before)
           /\ Len(after) <= Len(before) + 1
           /\ SubSeq(after, 1, Len(before)) = before
           /\ Len(after) = Len(before) + 1 =>
                 \A i \in Indices(before) : before[i].id # after[Len(after)].id ]_vars

\* C24 witness: a state node over A and B was created and A was then given another id in the
\* side panel; the state node still holds the condition on A.
C24_Witness ==
    /\ phase = "editor"
    /\ ~NodeExists(customNodes, <<"A">>)
    /\ NodeExists(customNodes, <<"X">>)
    /\ \E i \in Indices(customNodes) :
          /\ customNodes[i].id = generateStateNodeId(customNodes[i].compoundCondition)
          /\ ConditionNodeIds(customNodes[i].compoundCondition) = { <<"A">>, <<"B">> }

C26_ConditionsNotOnFA ==
    phase = "editor" =>
        \A i \in Indices(customNodes) :
            \A id \in ConditionNodeIds(customNodes[i].compoundCondition) :
                \A j \in Indices(customNodes) :
                    customNodes[j].id = id =>
                        customNodes[j].questionCategory \in {"SA", "MA", "NA"}

\* C27: every node id that a condition of a state node names is the id of a node of the graph.
C27_NoDanglingConditions ==
    phase = "editor" =>
        \A i \in Indices(customNodes) :
            \A id \in ConditionNodeIds(customNodes[i].compoundCondition) :
                NodeExists(customNodes, id)

----------------------------------------------------------------------------
(* generateStateNodeId on the condition lists of a graph in which a node id *)
(* holds underscores.                                                       *)

\* four numeric question nodes; the id of the fourth is one the id input and the id grammar
\* accept
CollisionNodes ==
    << [ Node(<<"A">>, <<"S","t","a","r","t">>, "stadium") EXCEPT !.questionCategory = "NA" ],
       [ Node(<<"B">>, <<"P","r","o","c","e","s","s">>, "rectangle") EXCEPT
           !.questionCategory = "NA" ],
       [ Node(<<"C">>, <<"E","n","d">>, "stadium") EXCEPT !.questionCategory = "NA" ],
       [ Node(<<"A","_","e","q","5","_","B">>, <<"N","e","w">>, "rectangle") EXCEPT
           !.questionCategory = "NA" ] >>

CollisionInit ==
    /\ phase = "identity"
    /\ steps = 0
    /\ customNodes = CollisionNodes /\ customEdges = <<>>
    /\ isDialogOpen = TRUE /\ selectedSourceNode = <<CollisionNodes[3]>>
    /\ condsA \in IdentityConditionLists
    /\ condsB \in IdentityConditionLists
    /\ idA = <<>> /\ idB = <<>>
    /\ IdleReach
    /\ IdleRender
    /\ IdleCall

SpecCollision == CollisionInit /\ [][IdentityNext]_vars

\* a condition with its choice ids as a set
ConditionAsSet(c) ==
    [nodeId |-> c.nodeId, conditionType |-> c.conditionType,
     choiceIds |-> { c.choiceIds[k] : k \in Indices(c.choiceIds) },
     operator |-> c.operator, value |-> c.value]

SetEqual(a, b) ==
    { ConditionAsSet(a[i]) : i \in Indices(a) } = { ConditionAsSet(b[i]) : i \in Indices(b) }

\* C28: two compound conditions that are not set-equal derive different state-node ids.
C28_CollisionFree ==
    (phase = "identity" /\ idA # <<>> /\ ~SetEqual(condsA, condsB)) => idA # idB

\* C29: an id edit of a row from old to new keeps the number, the order, the labels and the
\* styles of the edges, replaces each edge end that was old by new and leaves the other ends;
\* when new differs from old, no edge end is old afterwards.
C29_RenameRewritesEdges ==
    [][ (phase = "editor" /\ ~isDialogOpen) =>
          \A index \in DisplayNodeIndices : \A value \in IdEditInputs :
             setNodeId(index, value) =>
                LET old == customNodes[index].id
                IN /\ Len(customEdges') = Len(customEdges)
                   /\ \A k \in Indices(customEdges) :
                         /\ customEdges'[k].label = customEdges[k].label
                         /\ customEdges'[k].style = customEdges[k].style
                         /\ customEdges[k].from = old => customEdges'[k].from = value
                         /\ customEdges[k].from # old =>
                               customEdges'[k].from = customEdges[k].from
                         /\ customEdges[k].to = old => customEdges'[k].to = value
                         /\ customEdges[k].to # old => customEdges'[k].to = customEdges[k].to
                   /\ value # old =>
                         \A k \in Indices(customEdges') :
                            customEdges'[k].from # old /\ customEdges'[k].to # old ]_vars

\* C29 witness: B, the end of one edge and the start of another, was given the id X: the two
\* edges are now A -> X and X -> C.
C29_Witness ==
    /\ phase = "editor"
    /\ Len(customEdges) = 2
    /\ customEdges[1].from = <<"A">> /\ customEdges[1].to = <<"X">>
    /\ customEdges[2].from = <<"X">> /\ customEdges[2].to = <<"C">>
    /\ ~NodeExists(customNodes, <<"B">>)

----------------------------------------------------------------------------
(* FlowchartRenderer: the effect that renders mermaidCode into the          *)
(* container.  mermaid.render is a call of the rendering library: it        *)
(* settles some time after it was started, with an svg or with an error.    *)

MaxRenderEvents == 3

\* the values of the mermaidCode prop: the empty text, a blank text and three diagram texts
RenderCodes == { <<>>, <<" ">>, <<"A">>, <<"B">>, <<"A", " ">> }

\* String.prototype.trim on the characters of the model
RECURSIVE trim(_)
trim(text) ==
    IF text = <<>> THEN <<>>
    ELSE IF Head(text) \in {" ", NL} THEN trim(Tail(text))
    ELSE IF text[Len(text)] \in {" ", NL} THEN trim(SubSeq(text, 1, Len(text) - 1))
    ELSE text

\* the effect as it runs for a value of the prop, up to its await: nothing for a blank text,
\* else one more call of mermaid.render
startedBy(code) == IF trim(code) = <<>> THEN <<>> ELSE << [code |-> code] >>

\* the component is mounted with a value of the prop and the effect has run once
RenderInit ==
    /\ phase = "render"
    /\ steps = 0
    /\ customNodes = InitNodes /\ customEdges = InitEdges
    /\ isDialogOpen = FALSE /\ selectedSourceNode = <<>>
    /\ IdleIdentity
    /\ IdleReach
    /\ IdleCall
    /\ mermaidCode \in RenderCodes
    /\ rendering = startedBy(mermaidCode)
    /\ innerHTML = <<>>

RenderFrame == UNCHANGED <<phase, editorVars, identityVars, reachVars, callVars>>

\* the prop changes and the effect runs for the new value
setMermaidCode(code) ==
    /\ phase = "render"
    /\ steps < MaxRenderEvents
    /\ code # mermaidCode
    /\ steps' = steps + 1
    /\ mermaidCode' = code
    /\ rendering' = rendering \o startedBy(code)
    /\ UNCHANGED innerHTML
    /\ RenderFrame

\* a call of mermaid.render settles and renderMermaid resumes after its await: the svg, or the
\* error box of the catch block, is written into the container
settleRender(k, kind) ==
    /\ phase = "render"
    /\ k \in Indices(rendering)
    /\ innerHTML' = << [kind |-> kind, code |-> rendering[k].code] >>
    /\ rendering' = RemoveAt(rendering, k)
    /\ UNCHANGED <<steps, mermaidCode>>
    /\ RenderFrame

RenderNext ==
    \/ \E code \in RenderCodes : setMermaidCode(code)
    \/ \E k \in 1..(MaxRenderEvents + 1) : \E kind \in {"svg", "error"} : settleRender(k, kind)

SpecRender == RenderInit /\ [][RenderNext]_vars

\* C30: when no call of mermaid.render is pending and the current mermaidCode is not blank, the
\* container holds the svg or the error box made for the current mermaidCode.
C30_LatestRenderWins ==
    (phase = "render" /\ rendering = <<>> /\ trim(mermaidCode) # <<>>) =>
        /\ innerHTML # <<>>
        /\ innerHTML[1].code = mermaidCode

====
